---- MODULE Spec2Model ----
(***************************************************************************)
(* Model of the service-description codecs of ser: the ServiceDetails and  *)
(* CalendarSchedule data model (lib/src/lib.rs), the systemd unit codec    *)
(* (lib/src/systemd.rs) and the launchd property-list codec                *)
(* (lib/src/plist.rs).                                                     *)
(*                                                                         *)
(* A Rust String is a sequence of one-character strings, so that trimming, *)
(* prefix tests and whitespace splitting are computed character by         *)
(* character as the code computes them.  Option<T> is <<"None">> or        *)
(* <<"Some", x>>.  Result<T> is a record with a kind field: "Ok" (value),  *)
(* "Err" (msg, from bail!/anyhow!) or "Panic" (msg, from expect), and      *)
(* "NotCalled" before the function has run.                                *)
(***************************************************************************)
EXTENDS Integers, Sequences, FiniteSets, TLC

VARIABLES
    service,     \* the ServiceDetails handed to the codecs
    schedule,    \* the CalendarSchedule handed to the calendar codec
    contents,    \* unit-file text handed to parse_systemd
    unit,        \* result of systemd::generate_file(service)
    timer,       \* result of systemd::generate_timer_file(service)
    parsed,      \* result of systemd::parse_systemd(contents)
    plistOut,    \* result of plist::generate_file(service)
    oncalendar,  \* result of schedule.to_systemd_oncalendar()
    launchd,     \* result of schedule.to_launchd_dict()
    displayed,   \* result of schedule.display()
    plistValue,  \* the plist::Value handed to parse_plist_into_service
    plistParsed, \* result of parse_plist_into_service(plistValue)
    listed,      \* what the default-level filter of `ser list` decided for a unit
    prompt,      \* collect_service_details: its position and its locals
    host         \* the Linux host: /etc/systemd/system and the state of systemd

vars == <<service, schedule, contents, unit, timer, parsed, plistOut,
          oncalendar, launchd, displayed, plistValue, plistParsed, listed,
          prompt, host>>

-----------------------------------------------------------------------------
(* Bounds of the model *)

MaxArgs == 2     \* longest arguments vector
MaxEnv == 2      \* longest env_vars vector
MaxAfter == 2    \* longest after vector
MaxLines == 3    \* most lines of a unit-file text handed to the parser

-----------------------------------------------------------------------------
(* Option and Result *)

None == <<"None">>
Some(x) == <<"Some", x>>
IsSome(o) == o[1] = "Some"
Unwrap(o) == o[2]

NotCalled == [kind |-> "NotCalled"]
Ok(v) == [kind |-> "Ok", value |-> v]
Err(m) == [kind |-> "Err", msg |-> m]
Panic(m) == [kind |-> "Panic", msg |-> m]

\* collect_service_details is not running
NoPrompt == [pc |-> "none"]

\* a host without unit files, on which nothing has been run
NoHost == [files |-> {}, enabled |-> {}, active |-> {},
           op |-> [fn |-> "none"], issued |-> <<>>, result |-> NotCalled]

Opt(S) == {None} \cup {Some(x) : x \in S}
SeqUpTo(S, n) == UNION {[1..k -> S] : k \in 0..n}

-----------------------------------------------------------------------------
(* String literals of systemd.rs *)

MANAGED_BY_COMMENT ==
    <<"#"," ","M","a","n","a","g","e","d"," ","b","y"," ","s","e","r">>
Lit_Unit == <<"[","U","n","i","t","]">>
Lit_Service == <<"[","S","e","r","v","i","c","e","]">>
Lit_Install == <<"[","I","n","s","t","a","l","l","]">>
Lit_Timer == <<"[","T","i","m","e","r","]">>
Lit_Description == <<"D","e","s","c","r","i","p","t","i","o","n","=">>
Lit_TimerFor == <<"T","i","m","e","r"," ","f","o","r"," ">>
Lit_After == <<"A","f","t","e","r","=">>
Lit_TypeOneshot == <<"T","y","p","e","=","o","n","e","s","h","o","t">>
Lit_ExecStart == <<"E","x","e","c","S","t","a","r","t","=">>
Lit_WorkingDirectory ==
    <<"W","o","r","k","i","n","g","D","i","r","e","c","t","o","r","y","=">>
Lit_Restart == <<"R","e","s","t","a","r","t","=">>
Lit_RestartAlways == Lit_Restart \o <<"a","l","w","a","y","s">>
Lit_RestartNo == Lit_Restart \o <<"n","o">>
Lit_EnvironmentFile ==
    <<"E","n","v","i","r","o","n","m","e","n","t","F","i","l","e","=">>
Lit_Environment == <<"E","n","v","i","r","o","n","m","e","n","t","=">>
Lit_WantedBy == <<"W","a","n","t","e","d","B","y","=">>
Lit_WantedByDefault ==
    Lit_WantedBy \o <<"d","e","f","a","u","l","t",".","t","a","r","g","e","t">>
Lit_WantedByMultiUser ==
    Lit_WantedBy \o <<"m","u","l","t","i","-","u","s","e","r",".","t","a","r","g","e","t">>
Lit_WantedByTimers ==
    Lit_WantedBy \o <<"t","i","m","e","r","s",".","t","a","r","g","e","t">>
Lit_OnCalendar == <<"O","n","C","a","l","e","n","d","a","r","=">>
Lit_PersistentTrue == <<"P","e","r","s","i","s","t","e","n","t","=","t","r","u","e">>

NL == <<"\n">>
SP == <<" ">>
QUOTE == <<"\"">>

-----------------------------------------------------------------------------
(* The str methods the codecs use *)

\* char::is_whitespace, over the characters of the model
WhiteSpace == {" ", "\t", "\n", "\r"}

\* str::starts_with
starts_with(s, p) ==
    /\ Len(s) >= Len(p)
    /\ SubSeq(s, 1, Len(p)) = p

\* str::strip_prefix followed by unwrap / unwrap_or("") / map(to_string)
strip_prefix(s, p) ==
    IF starts_with(s, p) THEN SubSeq(s, Len(p) + 1, Len(s)) ELSE <<>>

RECURSIVE trim_start(_)
trim_start(s) ==
    IF s # <<>> /\ Head(s) \in WhiteSpace THEN trim_start(Tail(s)) ELSE s

RECURSIVE trim_end(_)
trim_end(s) ==
    IF s # <<>> /\ s[Len(s)] \in WhiteSpace
    THEN trim_end(SubSeq(s, 1, Len(s) - 1))
    ELSE s

\* str::trim
trim(s) == trim_end(trim_start(s))

\* str::lines: split at "\n"; a final line ending produces no empty last line.
\* lines_from(s, start) holds the lines of the text from position start on.
RECURSIVE lines_from(_, _)
lines_from(s, start) ==
    IF start > Len(s) THEN <<>>
    ELSE LET newlines == {i \in start..Len(s) : s[i] = "\n"}
         IN IF newlines = {} THEN <<SubSeq(s, start, Len(s))>>
            ELSE LET end == CHOOSE e \in newlines : \A x \in newlines : e <= x
                 IN <<SubSeq(s, start, end - 1)>> \o lines_from(s, end + 1)

lines(s) == lines_from(s, 1)

\* str::split_whitespace: the maximal runs of non-whitespace characters
RECURSIVE split_ws_from(_, _)
split_ws_from(s, cur) ==
    IF s = <<>> THEN (IF cur = <<>> THEN <<>> ELSE <<cur>>)
    ELSE IF Head(s) \in WhiteSpace
         THEN (IF cur = <<>> THEN <<>> ELSE <<cur>>) \o split_ws_from(Tail(s), <<>>)
         ELSE split_ws_from(Tail(s), Append(cur, Head(s)))

split_whitespace(s) == split_ws_from(s, <<>>)

\* str::split_once('='): None, or the text before and after the first '='
split_once(s, c) ==
    IF \E i \in 1..Len(s) : s[i] = c
    THEN LET i == CHOOSE j \in 1..Len(s) :
                      /\ s[j] = c
                      /\ \A k \in 1..(j - 1) : s[k] # c
         IN Some(<<SubSeq(s, 1, i - 1), SubSeq(s, i + 1, Len(s))>>)
    ELSE None

\* String::pop
pop(s) == IF s = <<>> THEN s ELSE SubSeq(s, 1, Len(s) - 1)

-----------------------------------------------------------------------------
(* CalendarSchedule (lib.rs) *)

Digits == <<"0","1","2","3","4","5","6","7","8","9">>

\* Display of an unsigned integer: its decimal digits, no padding
RECURSIVE to_decimal(_)
to_decimal(n) ==
    IF n < 10 THEN <<Digits[n + 1]>>
    ELSE Append(to_decimal(n \div 10), Digits[(n % 10) + 1])

\* format!("{:02}", n): zero-padded on the left to a width of at least two
RECURSIVE pad_left(_, _)
pad_left(s, width) ==
    IF Len(s) >= width THEN s ELSE pad_left(<<"0">> \o s, width)

format_02(n) == pad_left(to_decimal(n), 2)

weekday_str(weekday) ==
    IF weekday = Some(0) THEN <<"S","u","n"," ">>
    ELSE IF weekday = Some(1) THEN <<"M","o","n"," ">>
    ELSE IF weekday = Some(2) THEN <<"T","u","e"," ">>
    ELSE IF weekday = Some(3) THEN <<"W","e","d"," ">>
    ELSE IF weekday = Some(4) THEN <<"T","h","u"," ">>
    ELSE IF weekday = Some(5) THEN <<"F","r","i"," ">>
    ELSE IF weekday = Some(6) THEN <<"S","a","t"," ">>
    ELSE <<>>

\* field.map(|v| format!("{:02}", v)).unwrap_or_else(|| default)
format_or(field, default) ==
    IF IsSome(field) THEN format_02(Unwrap(field)) ELSE default

\* the minute with the wildcard as its default, like the other fields
minute_or_wildcard(minute) == format_or(minute, <<"*">>)

\* self.minute.map(|m| format!("{:02}", m)).unwrap_or_else(|| "00".to_string())
minute_or_default(minute) == format_or(minute, <<"0","0">>)

to_systemd_oncalendar(s) ==
    weekday_str(s.weekday) \o <<"*","-">> \o format_or(s.month, <<"*">>)
        \o <<"-">> \o format_or(s.day, <<"*">>)
        \o <<" ">> \o format_or(s.hour, <<"*">>)
        \o <<":">> \o minute_or_default(s.minute)
        \o <<":","0","0">>

\* if let Some(v) = field { entries.push((key, v as i64)) }
launchd_entry(key, field) ==
    IF IsSome(field) THEN <<(<<key, Unwrap(field)>>)>> ELSE <<>>

\* to_launchd_dict with Minute pushed before Hour
to_launchd_dict_minute_first(s) ==
    launchd_entry("Month", s.month)
        \o launchd_entry("Day", s.day)
        \o launchd_entry("Weekday", s.weekday)
        \o launchd_entry("Minute", s.minute)
        \o launchd_entry("Hour", s.hour)

to_launchd_dict(s) ==
    launchd_entry("Month", s.month)
        \o launchd_entry("Day", s.day)
        \o launchd_entry("Weekday", s.weekday)
        \o launchd_entry("Hour", s.hour)
        \o launchd_entry("Minute", s.minute)

-----------------------------------------------------------------------------
(* systemd codec: rendering (systemd.rs) *)

\* for after in &service.after { push_str(after); push(' ') }
RECURSIVE push_after(_)
push_after(after) ==
    IF after = <<>> THEN <<>>
    ELSE Head(after) \o SP \o push_after(Tail(after))

\* [Unit] section: Description and, if after is non-empty, the After line
unit_section(svc) ==
    Lit_Unit \o NL
        \o Lit_Description \o svc.name \o NL
        \o (IF svc.after # <<>>
            THEN pop(Lit_After \o push_after(svc.after)) \o NL
            ELSE <<>>)

\* type_line that also restarts a scheduled service on failure
type_line_with_restart(svc) ==
    IF IsSome(svc.schedule)
    THEN Lit_TypeOneshot \o NL \o Lit_Restart \o <<"o","n","-","f","a","i","l","u","r","e">> \o NL
    ELSE <<>>

\* For scheduled services, use Type=oneshot
type_line(svc) ==
    IF IsSome(svc.schedule) THEN Lit_TypeOneshot \o NL ELSE <<>>

\* push_arguments without the separating space
RECURSIVE push_arguments_unspaced(_)
push_arguments_unspaced(arguments) ==
    IF arguments = <<>> THEN <<>>
    ELSE Head(arguments) \o push_arguments_unspaced(Tail(arguments))

\* for arg in &service.arguments { push(' '); push_str(arg) }
RECURSIVE push_arguments(_)
push_arguments(arguments) ==
    IF arguments = <<>> THEN <<>>
    ELSE SP \o Head(arguments) \o push_arguments(Tail(arguments))

exec_start_line(svc) ==
    Lit_ExecStart \o svc.program \o push_arguments(svc.arguments) \o NL

working_directory_line(svc) ==
    IF IsSome(svc.working_directory)
    THEN Lit_WorkingDirectory \o Unwrap(svc.working_directory) \o NL
    ELSE <<>>

\* restart_line without the test of the schedule
restart_line_any_schedule(svc) ==
    IF svc.keep_alive THEN Lit_RestartAlways \o NL ELSE <<>>

\* Only add Restart for non-scheduled services
restart_line(svc) ==
    IF svc.schedule = None /\ svc.keep_alive
    THEN Lit_RestartAlways \o NL
    ELSE <<>>

env_file_line(svc) ==
    IF IsSome(svc.env_file)
    THEN Lit_EnvironmentFile \o Unwrap(svc.env_file) \o NL
    ELSE <<>>

\* format!("Environment=\"{}={}\"\n", key, value)
env_var_line(kv) ==
    Lit_Environment \o QUOTE \o kv[1] \o <<"=">> \o kv[2] \o QUOTE \o NL

\* env_var_lines that writes the last entry first
RECURSIVE env_var_lines_reversed(_)
env_var_lines_reversed(env_vars) ==
    IF env_vars = <<>> THEN <<>>
    ELSE env_var_lines_reversed(Tail(env_vars)) \o env_var_line(Head(env_vars))

RECURSIVE env_var_lines(_)
env_var_lines(env_vars) ==
    IF env_vars = <<>> THEN <<>>
    ELSE env_var_line(Head(env_vars)) \o env_var_lines(Tail(env_vars))

\* install_section without the test of the schedule
install_section_any_schedule(svc) ==
    IF svc.run_at_load
    THEN NL \o Lit_Install \o NL \o Lit_WantedByDefault \o NL
    ELSE <<>>

\* Only add [Install] section for non-scheduled services
install_section(svc) ==
    IF svc.schedule = None /\ svc.run_at_load
    THEN NL \o Lit_Install \o NL \o Lit_WantedByDefault \o NL
    ELSE <<>>

generate_file(svc) ==
    Ok(MANAGED_BY_COMMENT \o NL
        \o unit_section(svc)
        \o NL \o Lit_Service \o NL
        \o type_line(svc)
        \o exec_start_line(svc)
        \o working_directory_line(svc)
        \o restart_line(svc)
        \o env_file_line(svc)
        \o env_var_lines(svc.env_vars)
        \o install_section(svc))

\* generate_timer_file without the Persistent=true line
generate_timer_file_not_persistent(svc) ==
    IF svc.schedule = None THEN Err("No schedule defined")
    ELSE Ok(MANAGED_BY_COMMENT \o NL
            \o Lit_Unit \o NL
            \o Lit_Description \o Lit_TimerFor \o svc.name \o NL
            \o NL \o Lit_Timer \o NL
            \o Lit_OnCalendar \o to_systemd_oncalendar(Unwrap(svc.schedule)) \o NL
            \o NL \o Lit_Install \o NL
            \o Lit_WantedByTimers \o NL)

generate_timer_file(svc) ==
    IF svc.schedule = None THEN Err("No schedule defined")
    ELSE Ok(MANAGED_BY_COMMENT \o NL
            \o Lit_Unit \o NL
            \o Lit_Description \o Lit_TimerFor \o svc.name \o NL
            \o NL \o Lit_Timer \o NL
            \o Lit_OnCalendar \o to_systemd_oncalendar(Unwrap(svc.schedule)) \o NL
            \o Lit_PersistentTrue \o NL
            \o NL \o Lit_Install \o NL
            \o Lit_WantedByTimers \o NL)

-----------------------------------------------------------------------------
(* systemd codec: parsing (systemd.rs) *)

\* The locals of parse_systemd before the loop; bail holds the message of a
\* bail! that ended the function early.
parse_locals ==
    [name |-> None, program |-> None, arguments |-> <<>>,
     working_directory |-> None, run_at_load |-> FALSE, keep_alive |-> FALSE,
     env_file |-> None, env_vars |-> <<>>, after |-> <<>>, bail |-> None]

\* parse_exec_start that starts the environment afresh
parse_exec_start_clears_env(st, line) ==
    LET parts == split_whitespace(strip_prefix(line, Lit_ExecStart))
    IN IF parts # <<>>
       THEN [st EXCEPT !.program = Some(Head(parts)), !.arguments = Tail(parts),
                       !.env_vars = <<>>]
       ELSE [st EXCEPT !.bail = Some("ExecStart line is empty in service file")]

\* The ExecStart branch of the loop body
parse_exec_start(st, line) ==
    LET parts == split_whitespace(strip_prefix(line, Lit_ExecStart))
    IN IF parts # <<>>
       THEN [st EXCEPT !.program = Some(Head(parts)), !.arguments = Tail(parts)]
       ELSE [st EXCEPT !.bail = Some("ExecStart line is empty in service file")]

parse_environment_prepend(st, line) ==
    LET kv == split_once(strip_prefix(line, Lit_Environment), "=")
    IN IF kv = None
       THEN [st EXCEPT !.bail = Some("Environment line is empty in service file")]
       ELSE [st EXCEPT !.env_vars = <<Unwrap(kv)>> \o @]

\* The Environment branch of the loop body
parse_environment(st, line) ==
    LET kv == split_once(strip_prefix(line, Lit_Environment), "=")
    IN IF kv = None
       THEN [st EXCEPT !.bail = Some("Environment line is empty in service file")]
       ELSE [st EXCEPT !.env_vars = Append(@, Unwrap(kv))]

parse_restart_always(st, line) == [st EXCEPT !.keep_alive = TRUE]

\* The restart test: keep_alive = line != "Restart=no"
parse_restart(st, line) == [st EXCEPT !.keep_alive = (line # Lit_RestartNo)]

\* One iteration of the loop: the Description test, then the else-if chain
parse_line(st, raw) ==
    LET line == trim(raw)
        st1 == IF starts_with(line, Lit_Description)
               THEN [st EXCEPT !.name = Some(strip_prefix(line, Lit_Description))]
               ELSE st
    IN IF starts_with(line, Lit_ExecStart) THEN parse_exec_start(st1, line)
       ELSE IF starts_with(line, Lit_WorkingDirectory)
       THEN [st1 EXCEPT !.working_directory =
                            Some(strip_prefix(line, Lit_WorkingDirectory))]
       ELSE IF line = Lit_WantedByMultiUser \/ line = Lit_WantedByDefault
       THEN [st1 EXCEPT !.run_at_load = TRUE]
       ELSE IF starts_with(line, Lit_Restart) THEN parse_restart(st1, line)
       ELSE IF starts_with(line, Lit_EnvironmentFile)
       THEN [st1 EXCEPT !.env_file = Some(strip_prefix(line, Lit_EnvironmentFile))]
       ELSE IF starts_with(line, Lit_Environment) THEN parse_environment(st1, line)
       ELSE IF starts_with(line, Lit_After)
       THEN [st1 EXCEPT !.after = split_whitespace(strip_prefix(line, Lit_After))]
       ELSE st1

\* for line in contents.lines() { ... }, left early by bail!
RECURSIVE parse_loop(_, _)
parse_loop(ls, st) ==
    IF ls = <<>> \/ st.bail # None THEN st
    ELSE parse_loop(Tail(ls), parse_line(st, Head(ls)))

\* Ok(ServiceDetails { name: name.expect(..), program: program.expect(..), .. })
build_details(st) ==
    IF st.name = None THEN Panic("No name for service")
    ELSE IF st.program = None THEN Panic("No program for service")
    ELSE Ok([name |-> Unwrap(st.name),
             program |-> Unwrap(st.program),
             arguments |-> st.arguments,
             working_directory |-> st.working_directory,
             run_at_load |-> st.run_at_load,
             keep_alive |-> st.keep_alive,
             env_file |-> st.env_file,
             env_vars |-> st.env_vars,
             after |-> st.after,
             schedule |-> None])

parse_systemd(text) ==
    LET st == parse_loop(lines(text), parse_locals)
    IN IF st.bail # None THEN Err(Unwrap(st.bail)) ELSE build_details(st)

-----------------------------------------------------------------------------
(* launchd codec (plist.rs).  A plist::Dictionary is an insertion-ordered *)
(* map: a sequence of <<key, value>> pairs with distinct keys.  A          *)
(* plist::Value is <<tag, payload>>.  generate_file is modelled up to the  *)
(* dictionary it serialises; the XML writer is not modelled.               *)

PString(s) == <<"String", s>>
PArray(a) == <<"Array", a>>
PBoolean(b) == <<"Boolean", b>>
PInteger(i) == <<"Integer", i>>
PDictionary(d) == <<"Dictionary", d>>

\* Dictionary::insert: replace the value of an existing key, else append
dict_insert(dict, key, value) ==
    IF \E i \in 1..Len(dict) : dict[i][1] = key
    THEN [i \in 1..Len(dict) |->
             IF dict[i][1] = key THEN <<key, value>> ELSE dict[i]]
    ELSE Append(dict, <<key, value>>)

dict_keys(dict) == {dict[i][1] : i \in 1..Len(dict)}
dict_get(dict, key) ==
    IF key \in dict_keys(dict)
    THEN Some(dict[CHOOSE i \in 1..Len(dict) : dict[i][1] = key][2])
    ELSE None

RECURSIVE insert_integers(_, _)
insert_integers(dict, entries) ==
    IF entries = <<>> THEN dict
    ELSE insert_integers(dict_insert(dict, Head(entries)[1],
                                     PInteger(Head(entries)[2])),
                         Tail(entries))

RECURSIVE insert_strings(_, _)
insert_strings(dict, entries) ==
    IF entries = <<>> THEN dict
    ELSE insert_strings(dict_insert(dict, Head(entries)[1],
                                    PString(Head(entries)[2])),
                        Tail(entries))

\* plist_program that always inserts ProgramArguments
plist_program_always_arguments(dict, details) ==
    dict_insert(dict, "ProgramArguments",
                PArray(<<PString(details.program)>>
                       \o [i \in 1..Len(details.arguments) |->
                               PString(details.arguments[i])]))

\* Program when there are no arguments, else ProgramArguments
plist_program(dict, details) ==
    IF details.arguments = <<>>
    THEN dict_insert(dict, "Program", PString(details.program))
    ELSE dict_insert(dict, "ProgramArguments",
                     PArray(<<PString(details.program)>>
                            \o [i \in 1..Len(details.arguments) |->
                                    PString(details.arguments[i])]))

plist_working_directory(dict, details) ==
    IF IsSome(details.working_directory)
    THEN dict_insert(dict, "WorkingDirectory",
                     PString(Unwrap(details.working_directory)))
    ELSE dict

\* plist_schedule that inserts RunAtLoad and KeepAlive for a scheduled
\* service too
plist_schedule_with_policy(dict, details) ==
    LET d0 == IF IsSome(details.schedule)
              THEN dict_insert(dict, "StartCalendarInterval",
                       PDictionary(insert_integers(<<>>,
                                       to_launchd_dict(Unwrap(details.schedule)))))
              ELSE dict
        d1 == IF details.run_at_load
              THEN dict_insert(d0, "RunAtLoad", PBoolean(TRUE))
              ELSE d0
    IN IF details.keep_alive
       THEN dict_insert(d1, "KeepAlive", PBoolean(TRUE))
       ELSE d1

\* if scheduled, add StartCalendarInterval instead of RunAtLoad/KeepAlive
plist_schedule(dict, details) ==
    IF IsSome(details.schedule)
    THEN dict_insert(dict, "StartCalendarInterval",
             PDictionary(insert_integers(<<>>,
                             to_launchd_dict(Unwrap(details.schedule)))))
    ELSE LET d1 == IF details.run_at_load
                   THEN dict_insert(dict, "RunAtLoad", PBoolean(TRUE))
                   ELSE dict
         IN IF details.keep_alive
            THEN dict_insert(d1, "KeepAlive", PBoolean(TRUE))
            ELSE d1

plist_env_vars(dict, details) ==
    IF details.env_vars # <<>>
    THEN dict_insert(dict, "EnvironmentVariables",
                     PDictionary(insert_strings(<<>>, details.env_vars)))
    ELSE dict

plist_generate_file(details) ==
    Ok(plist_env_vars(
           plist_schedule(
               plist_working_directory(
                   plist_program(
                       dict_insert(<<>>, "Label", PString(details.name)),
                       details),
                   details),
               details),
           details))

-----------------------------------------------------------------------------
(* The inputs of the codecs.  A ServiceDetails is built by                 *)
(* collect_service_details: name, program, arguments and after entries are *)
(* non-empty and free of whitespace, working_directory and env_file are    *)
(* trimmed and non-empty when present, env_vars keys and values are        *)
(* trimmed.                                                                *)

NameSet == {<<"s",".","1">>}
ProgramSet == {<<"/","b","/","e">>}
ArgumentSet == {<<"a">>, <<"-","x","=","1">>}
WorkingDirectorySet == {<<"/","m"," ","d">>}

\* The after vectors: the first k entries of a fixed list of dependencies,
\* as the "Networked service?" answer gives none or the whole list
AfterVectorSet ==
    {[i \in 1..k |-> IF i % 2 = 1 THEN <<"n",".","t">> ELSE <<"o">>] : k \in 0..MaxAfter}

Schedule(mo, d, wd, h, mi) ==
    [month |-> mo, day |-> d, weekday |-> wd, hour |-> h, minute |-> mi]

\* Schedules of the services handed to the file codecs
ServiceScheduleSet ==
    {Schedule(None, None, None, Some(3), None),
     Schedule(Some(6), Some(15), Some(3), Some(9), Some(30))}

ServiceSet ==
    [name : NameSet,
     program : ProgramSet,
     arguments : SeqUpTo(ArgumentSet, MaxArgs),
     working_directory : Opt(WorkingDirectorySet),
     run_at_load : BOOLEAN,
     keep_alive : BOOLEAN,
     env_file : Opt({<<"/","e">>}),
     env_vars : SeqUpTo({<<(<<"K">>), (<<"v">>)>>,
                         <<(<<"L">>), (<<"a","=","b"," ","c">>)>>}, MaxEnv),
     after : AfterVectorSet,
     schedule : Opt(ServiceScheduleSet)]

\* The schedules handed to the calendar codec, the field values within the
\* ranges documented on CalendarSchedule
CalendarScheduleSet ==
    [month : Opt({1, 6, 10, 12}), day : Opt({1, 9, 15, 31}), weekday : Opt(0..6),
     hour : Opt({0, 3, 9, 14, 23}), minute : Opt({0, 5, 30, 59})]

\* Lines of the unit files handed to the parser
Line_Example ==
    Lit_ExecStart \o <<"/","b","i","n","/","e","c","h","o"," ",
                       "h","e","l","l","o"," ","w","o","r","l","d">>
LineSet ==
    {Lit_Service,
     Lit_Description \o <<"s">>,
     Line_Example,
     <<" ">> \o Lit_ExecStart \o <<"/","p"," "," ","a"," ">>,
     Lit_ExecStart,
     Lit_ExecStart \o <<" "," ">>,
     Lit_RestartNo,
     Lit_Restart \o <<"o","n","-","f","a","i","l","u","r","e">>,
     Lit_WantedByTimers,
     Lit_WantedByMultiUser,
     Lit_WantedByDefault,
     Lit_EnvironmentFile \o <<"/","e">>,
     Lit_Environment \o <<"K","=","v">>,
     Lit_Environment \o <<"L","=","a","=","b">>,
     Lit_Environment \o <<"K">>}

\* join the lines, each ended by a newline
RECURSIVE join_lines(_)
join_lines(ls) ==
    IF ls = <<>> THEN <<>> ELSE Head(ls) \o NL \o join_lines(Tail(ls))

\* The texts handed to the parser: up to MaxLines lines, alone or after a name
\* and a command
ContentsSet ==
    {join_lines(h \o ls) :
        h \in {<<>>, <<Lit_Description \o <<"s">>, Line_Example>>},
        ls \in SeqUpTo(LineSet, MaxLines)}

-----------------------------------------------------------------------------
(* Specification of the file codecs: one ServiceDetails is rendered by     *)
(* each codec, and the rendered unit file is parsed back.                  *)

Init ==
    /\ service \in {Some(d) : d \in ServiceSet}
    /\ schedule = None
    /\ contents = None
    /\ unit = NotCalled
    /\ timer = NotCalled
    /\ parsed = NotCalled
    /\ plistOut = NotCalled
    /\ oncalendar = NotCalled
    /\ launchd = NotCalled
    /\ displayed = NotCalled
    /\ plistValue = None
    /\ plistParsed = NotCalled
    /\ listed = NotCalled
    /\ host = NoHost
    /\ prompt = NoPrompt

Idle ==
    /\ unit = NotCalled
    /\ timer = NotCalled
    /\ parsed = NotCalled
    /\ plistOut = NotCalled
    /\ oncalendar = NotCalled
    /\ launchd = NotCalled
    /\ displayed = NotCalled
    /\ listed = NotCalled
    /\ plistValue = None

\* systemd::generate_file(&service)
GenerateFile ==
    /\ IsSome(service)
    /\ Idle
    /\ unit' = generate_file(Unwrap(service))
    /\ UNCHANGED <<service, schedule, contents, timer, parsed, plistOut,
                   oncalendar, launchd,
                   displayed, plistValue, plistParsed, listed, prompt, host>>

\* systemd::parse_systemd(&generated), the generated text being the unit file
ParseGenerated ==
    /\ unit.kind = "Ok"
    /\ parsed = NotCalled
    /\ contents' = Some(unit.value)
    /\ parsed' = parse_systemd(unit.value)
    /\ UNCHANGED <<service, schedule, unit, timer, plistOut, oncalendar, launchd,
                   displayed, plistValue, plistParsed, listed, prompt, host>>

\* systemd::generate_timer_file(&service)
GenerateTimerFile ==
    /\ IsSome(service)
    /\ Idle
    /\ timer' = generate_timer_file(Unwrap(service))
    /\ UNCHANGED <<service, schedule, contents, unit, parsed, plistOut,
                   oncalendar, launchd,
                   displayed, plistValue, plistParsed, listed, prompt, host>>

\* plist::generate_file(&service)
PlistGenerateFile ==
    /\ IsSome(service)
    /\ Idle
    /\ plistOut' = plist_generate_file(Unwrap(service))
    /\ UNCHANGED <<service, schedule, contents, unit, timer, parsed,
                   oncalendar, launchd,
                   displayed, plistValue, plistParsed, listed, prompt, host>>

\* The dictionary create_service of platform/macos.rs writes to
\* ~/Library/LaunchAgents/<name>.plist
macos_create_service(details) ==
    LET d0 == plist_working_directory(
                  plist_program(dict_insert(<<>>, "Label", PString(details.name)),
                                details),
                  details)
        d1 == IF details.run_at_load
              THEN dict_insert(d0, "RunAtLoad", PBoolean(TRUE))
              ELSE d0
    IN IF details.keep_alive
       THEN dict_insert(d1, "KeepAlive", PBoolean(TRUE))
       ELSE d1

\* create_service(&service) on macOS; plistValue is the property list written
MacosCreateService ==
    /\ IsSome(service)
    /\ Idle
    /\ plistValue' = Some(PDictionary(macos_create_service(Unwrap(service))))
    /\ UNCHANGED <<service, schedule, contents, unit, timer, parsed, plistOut,
                   oncalendar, launchd, displayed, plistParsed, listed, prompt,
                   host>>

Next ==
    \/ GenerateFile
    \/ ParseGenerated
    \/ GenerateTimerFile
    \/ PlistGenerateFile
    \/ MacosCreateService

Spec == Init /\ [][Next]_vars

-----------------------------------------------------------------------------
(* Specification of the parser: parse_systemd applied to a unit file found *)
(* on disk.                                                                *)

InitParse ==
    /\ service = None
    /\ schedule = None
    /\ contents \in {Some(t) : t \in ContentsSet}
    /\ unit = NotCalled
    /\ timer = NotCalled
    /\ parsed = NotCalled
    /\ plistOut = NotCalled
    /\ oncalendar = NotCalled
    /\ launchd = NotCalled
    /\ displayed = NotCalled
    /\ plistValue = None
    /\ plistParsed = NotCalled
    /\ listed = NotCalled
    /\ host = NoHost
    /\ prompt = NoPrompt

\* systemd::parse_systemd(&contents)
ParseSystemd ==
    /\ IsSome(contents)
    /\ unit = NotCalled
    /\ parsed = NotCalled
    /\ parsed' = parse_systemd(Unwrap(contents))
    /\ UNCHANGED <<service, schedule, contents, unit, timer, plistOut,
                   oncalendar, launchd,
                   displayed, plistValue, plistParsed, listed, prompt, host>>

NextParse == ParseSystemd

SpecParse == InitParse /\ [][NextParse]_vars

-----------------------------------------------------------------------------
(* Specification of the calendar codec: one CalendarSchedule is rendered   *)
(* for systemd and for launchd.                                            *)

\* join without the separator
RECURSIVE join_unspaced(_, _)
join_unspaced(parts, sep) ==
    IF parts = <<>> THEN <<>>
    ELSE Head(parts) \o join_unspaced(Tail(parts), sep)

\* parts.join(sep)
RECURSIVE join(_, _)
join(parts, sep) ==
    IF parts = <<>> THEN <<>>
    ELSE IF Len(parts) = 1 THEN Head(parts)
    ELSE Head(parts) \o sep \o join(Tail(parts), sep)

\* CalendarSchedule::display
display(s) ==
    LET days == << <<"S","u","n">>, <<"M","o","n">>, <<"T","u","e">>,
                   <<"W","e","d">>, <<"T","h","u">>, <<"F","r","i">>,
                   <<"S","a","t">> >>
        \* days.get(weekday as usize), pushed when it is there
        weekday == IF IsSome(s.weekday) /\ Unwrap(s.weekday) + 1 \in 1..Len(days)
                   THEN <<days[Unwrap(s.weekday) + 1]>>
                   ELSE <<>>
        \* format!("day {}", day)
        day == IF IsSome(s.day)
               THEN <<(<<"d","a","y"," ">> \o to_decimal(Unwrap(s.day)))>>
               ELSE <<>>
        \* format!("{:02}:{:02}", hour, minute), minute = self.minute.unwrap_or(0)
        time == IF IsSome(s.hour)
                THEN <<(format_02(Unwrap(s.hour)) \o <<":">>
                          \o format_02(IF IsSome(s.minute) THEN Unwrap(s.minute) ELSE 0))>>
                ELSE <<>>
        parts == weekday \o day \o time
    IN IF parts = <<>> THEN <<"s","c","h","e","d","u","l","e","d">>
       ELSE join(parts, SP)

InitCal ==
    /\ service = None
    /\ schedule \in {Some(s) : s \in CalendarScheduleSet}
    /\ contents = None
    /\ unit = NotCalled
    /\ timer = NotCalled
    /\ parsed = NotCalled
    /\ plistOut = NotCalled
    /\ oncalendar = NotCalled
    /\ launchd = NotCalled
    /\ displayed = NotCalled
    /\ plistValue = None
    /\ plistParsed = NotCalled
    /\ listed = NotCalled
    /\ host = NoHost
    /\ prompt = NoPrompt

\* schedule.to_systemd_oncalendar()
ToSystemdOnCalendar ==
    /\ IsSome(schedule)
    /\ Idle
    /\ oncalendar' = Ok(to_systemd_oncalendar(Unwrap(schedule)))
    /\ UNCHANGED <<service, schedule, contents, unit, timer, parsed, plistOut,
                   launchd,
                   displayed, plistValue, plistParsed, listed, prompt, host>>

\* schedule.to_launchd_dict()
ToLaunchdDict ==
    /\ IsSome(schedule)
    /\ Idle
    /\ launchd' = Ok(to_launchd_dict(Unwrap(schedule)))
    /\ UNCHANGED <<service, schedule, contents, unit, timer, parsed, plistOut,
                   oncalendar,
                   displayed, plistValue, plistParsed, listed, prompt, host>>

\* schedule.display()
Display ==
    /\ IsSome(schedule)
    /\ Idle
    /\ displayed' = Ok(display(Unwrap(schedule)))
    /\ UNCHANGED <<service, schedule, contents, unit, timer, parsed, plistOut,
                   oncalendar, launchd, plistValue, plistParsed, listed, prompt,
                   host>>

NextCal ==
    \/ ToSystemdOnCalendar
    \/ ToLaunchdDict
    \/ Display

SpecCal == InitCal /\ [][NextCal]_vars

-----------------------------------------------------------------------------
(* Properties of the systemd codec *)

\* l is one of the lines ls
has_line(ls, l) == \E i \in 1..Len(ls) : ls[i] = l
\* one of the lines ls starts with p
has_line_with(ls, p) == \E i \in 1..Len(ls) : starts_with(ls[i], p)

\* C1: for a ServiceDetails without schedule, parsing the generated unit file
\* succeeds and gives back name, program, arguments, working_directory,
\* run_at_load, keep_alive, env_file and after.
C1_RoundTrip ==
    (parsed # NotCalled /\ IsSome(service) /\ Unwrap(service).schedule = None)
        => /\ parsed.kind = "Ok"
           /\ parsed.value.name = Unwrap(service).name
           /\ parsed.value.program = Unwrap(service).program
           /\ parsed.value.arguments = Unwrap(service).arguments
           /\ parsed.value.working_directory = Unwrap(service).working_directory
           /\ parsed.value.run_at_load = Unwrap(service).run_at_load
           /\ parsed.value.keep_alive = Unwrap(service).keep_alive
           /\ parsed.value.env_file = Unwrap(service).env_file
           /\ parsed.value.after = Unwrap(service).after

C1_Witness ==
    /\ parsed.kind = "Ok"
    /\ IsSome(service)
    /\ Unwrap(service).schedule = None
    /\ Len(Unwrap(service).arguments) = 2
    /\ Len(Unwrap(service).after) = 2
    /\ Unwrap(service).working_directory = Some(<<"/","m"," ","d">>)
    /\ IsSome(Unwrap(service).env_file)
    /\ Unwrap(service).env_vars # <<>>
    /\ Unwrap(service).run_at_load
    /\ Unwrap(service).keep_alive

\* C2: for a ServiceDetails without schedule, parsing the generated unit file
\* gives back env_vars: the same pairs in the same order.
C2_EnvVarsRoundTrip ==
    (parsed # NotCalled /\ IsSome(service) /\ Unwrap(service).schedule = None)
        => /\ parsed.kind = "Ok"
           /\ parsed.value.env_vars = Unwrap(service).env_vars

\* C3: the generated unit has the line Restart=always when schedule is None
\* and keep_alive holds, has no Restart= line when schedule is present, and
\* no generated file has both a Restart= line and Type=oneshot or OnCalendar=.
C3_RestartDirective ==
    /\ unit.kind = "Ok" =>
          LET ls == lines(unit.value)
          IN /\ (Unwrap(service).schedule = None /\ Unwrap(service).keep_alive)
                   => has_line(ls, Lit_RestartAlways)
             /\ IsSome(Unwrap(service).schedule)
                   => ~has_line_with(ls, Lit_Restart)
             /\ ~(/\ has_line_with(ls, Lit_Restart)
                  /\ \/ has_line(ls, Lit_TypeOneshot)
                     \/ has_line_with(ls, Lit_OnCalendar))
    /\ timer.kind = "Ok" =>
          LET ls == lines(timer.value)
          IN /\ has_line_with(ls, Lit_OnCalendar)
             /\ ~has_line_with(ls, Lit_Restart)

C3_Witness ==
    /\ unit.kind = "Ok"
    /\ IsSome(Unwrap(service).schedule)
    /\ Unwrap(service).keep_alive
    /\ has_line(lines(unit.value), Lit_TypeOneshot)

\* C4: the generated unit has the [Install] section with
\* WantedBy=default.target exactly if run_at_load holds and schedule is None;
\* for a scheduled service the unit has no [Install] and no WantedBy= line,
\* and the timer file is the one that has WantedBy=timers.target.
C4_InstallSection ==
    /\ unit.kind = "Ok" =>
          LET d == Unwrap(service)
              ls == lines(unit.value)
              installs == d.schedule = None /\ d.run_at_load
          IN /\ has_line(ls, Lit_Install) <=> installs
             /\ has_line_with(ls, Lit_WantedBy) <=> installs
             /\ installs =>
                   \E i \in 1..(Len(ls) - 1) :
                       ls[i] = Lit_Install /\ ls[i + 1] = Lit_WantedByDefault
    /\ timer.kind = "Ok" =>
          LET ls == lines(timer.value)
          IN /\ has_line(ls, Lit_WantedByTimers)
             /\ ~has_line(ls, Lit_WantedByDefault)

C4_Witness ==
    /\ unit.kind = "Ok"
    /\ IsSome(Unwrap(service).schedule)
    /\ Unwrap(service).run_at_load
    /\ ~has_line(lines(unit.value), Lit_Install)

\* the value of an ExecStart= line, as the parser reads it
exec_start_value(l) == strip_prefix(trim(l), Lit_ExecStart)
is_exec_start(l) == starts_with(trim(l), Lit_ExecStart)

\* C5: parse_systemd returns an error value, not a panic and not a
\* ServiceDetails, when the text has no ExecStart= line or has an ExecStart=
\* line whose value is empty or only whitespace.
C5_MissingExecStartIsError ==
    (parsed # NotCalled /\ IsSome(contents)) =>
        LET ls == lines(Unwrap(contents))
        IN (\/ \A i \in 1..Len(ls) : ~is_exec_start(ls[i])
            \/ \E i \in 1..Len(ls) :
                   /\ is_exec_start(ls[i])
                   /\ split_whitespace(exec_start_value(ls[i])) = <<>>)
              => parsed.kind = "Err"

\* C6: for a text with an ExecStart= line of non-empty value, parse_systemd
\* returns a ServiceDetails whose program is the first token of that value
\* and whose arguments are the other tokens in order.
C6_ExecStartParsed ==
    (parsed # NotCalled /\ IsSome(contents)) =>
        LET ls == lines(Unwrap(contents))
            valued == {i \in 1..Len(ls) :
                          /\ is_exec_start(ls[i])
                          /\ split_whitespace(exec_start_value(ls[i])) # <<>>}
        IN valued # {} =>
              /\ parsed.kind = "Ok"
              /\ \E i \in valued :
                    LET tokens == split_whitespace(exec_start_value(ls[i]))
                    IN /\ parsed.value.program = Head(tokens)
                       /\ parsed.value.arguments = Tail(tokens)

-----------------------------------------------------------------------------
(* Properties of the calendar codec *)

C8_LaunchdEntries ==
    launchd.kind = "Ok" =>
        LET s == Unwrap(schedule)
            out == launchd.value
            order == <<"Month", "Day", "Weekday", "Hour", "Minute">>
            fields == <<s.month, s.day, s.weekday, s.hour, s.minute>>
            rank(key) == CHOOSE r \in 1..5 : order[r] = key
        IN /\ \A i \in 1..Len(out) : out[i][1] \in {order[r] : r \in 1..5}
           /\ \A r \in 1..5 :
                 IF fields[r] = None
                 THEN \A i \in 1..Len(out) : out[i][1] # order[r]
                 ELSE /\ Cardinality({i \in 1..Len(out) : out[i][1] = order[r]}) = 1
                      /\ \E i \in 1..Len(out) : out[i] = <<order[r], fields[r][2]>>
           /\ \A i, j \in 1..Len(out) : i < j => rank(out[i][1]) < rank(out[j][1])
           /\ s = Schedule(None, None, None, None, None) => out = <<>>
           /\ s = Schedule(None, None, None, Some(14), None)
                 => out = <<(<<"Hour", 14>>)>>

C8_Witness ==
    /\ launchd.kind = "Ok"
    /\ Unwrap(schedule) = Schedule(None, None, None, Some(14), Some(30))
    /\ launchd.value = <<(<<"Hour", 14>>), (<<"Minute", 30>>)>>

-----------------------------------------------------------------------------
(* Properties of the launchd codec *)

\* C9: the launchd dictionary has exactly one of Program and
\* ProgramArguments: Program, the program string, when arguments is empty;
\* ProgramArguments, the program followed by the arguments, otherwise.
C9_ProgramOrArguments ==
    plistOut.kind = "Ok" =>
        LET d == Unwrap(service)
            keys == dict_keys(plistOut.value)
        IN /\ ("Program" \in keys) # ("ProgramArguments" \in keys)
           /\ d.arguments = <<>> =>
                 dict_get(plistOut.value, "Program") = Some(PString(d.program))
           /\ d.arguments # <<>> =>
                 /\ "ProgramArguments" \in keys
                 /\ LET arr == Unwrap(dict_get(plistOut.value, "ProgramArguments"))
                    IN /\ arr[1] = "Array"
                       /\ Len(arr[2]) = Len(d.arguments) + 1
                       /\ arr[2][1] = PString(d.program)
                       /\ \A i \in 1..Len(d.arguments) :
                             arr[2][i + 1] = PString(d.arguments[i])

C9_Witness ==
    /\ plistOut.kind = "Ok"
    /\ Len(Unwrap(service).arguments) = 2
    /\ "ProgramArguments" \in dict_keys(plistOut.value)

\* C10: StartCalendarInterval is in the launchd dictionary exactly if
\* schedule is present, and then RunAtLoad and KeepAlive are not; without
\* schedule, RunAtLoad=true is there iff run_at_load and KeepAlive=true iff
\* keep_alive.
C10_ScheduleExcludesPolicy ==
    plistOut.kind = "Ok" =>
        LET d == Unwrap(service)
            keys == dict_keys(plistOut.value)
        IN /\ ("StartCalendarInterval" \in keys) <=> IsSome(d.schedule)
           /\ IsSome(d.schedule) =>
                 /\ "RunAtLoad" \notin keys
                 /\ "KeepAlive" \notin keys
           /\ d.schedule = None =>
                 /\ ("RunAtLoad" \in keys) <=> d.run_at_load
                 /\ ("KeepAlive" \in keys) <=> d.keep_alive
                 /\ d.run_at_load =>
                       dict_get(plistOut.value, "RunAtLoad") = Some(PBoolean(TRUE))
                 /\ d.keep_alive =>
                       dict_get(plistOut.value, "KeepAlive") = Some(PBoolean(TRUE))

C10_Witness ==
    /\ plistOut.kind = "Ok"
    /\ IsSome(Unwrap(service).schedule)
    /\ Unwrap(service).run_at_load
    /\ Unwrap(service).keep_alive
    /\ "StartCalendarInterval" \in dict_keys(plistOut.value)

-----------------------------------------------------------------------------
(* Further properties of the systemd rendering *)

\* C11: generate_timer_file fails exactly if schedule is None; otherwise the
\* file is, in this order: the marker, [Unit], Description=Timer for <name>,
\* a blank line, [Timer], OnCalendar=<to_systemd_oncalendar of the schedule>,
\* Persistent=true, a blank line, [Install], WantedBy=timers.target.
C11_TimerFile ==
    timer # NotCalled =>
        LET d == Unwrap(service)
        IN /\ timer.kind = "Err" <=> d.schedule = None
           /\ timer.kind \in {"Ok", "Err"}
           /\ timer.kind = "Ok" =>
                 /\ lines(timer.value) =
                       <<MANAGED_BY_COMMENT,
                         Lit_Unit,
                         Lit_Description \o Lit_TimerFor \o d.name,
                         <<>>,
                         Lit_Timer,
                         Lit_OnCalendar \o to_systemd_oncalendar(Unwrap(d.schedule)),
                         Lit_PersistentTrue,
                         <<>>,
                         Lit_Install,
                         Lit_WantedByTimers>>
                 /\ timer.value[Len(timer.value)] = "\n"
                 /\ d.schedule = Some(Schedule(None, None, None, Some(3), None))
                       => lines(timer.value)[6] =
                              Lit_OnCalendar \o <<"*","-","*","-","*"," ",
                                                  "0","3",":","0","0",":","0","0">>

C11_Witness ==
    /\ timer.kind = "Ok"
    /\ Unwrap(service).schedule =
           Some(Schedule(Some(6), Some(15), Some(3), Some(9), Some(30)))
    /\ lines(timer.value)[6] =
           Lit_OnCalendar \o <<"W","e","d"," ","*","-","0","6","-","1","5"," ",
                               "0","9",":","3","0",":","0","0">>

\* C12: generate_file emits its lines in the order: marker, [Unit],
\* Description=<name>, After=<after joined by spaces> (if after is non-empty),
\* blank line, [Service], Type=oneshot (iff scheduled), ExecStart=<program and
\* arguments joined by single spaces>, WorkingDirectory (if present), Restart,
\* EnvironmentFile (if present), one Environment="<KEY>=<VALUE>" line per
\* env_vars entry in insertion order, then the [Install] section.
C12_LineOrder ==
    unit.kind = "Ok" =>
        LET d == Unwrap(service)
            spaced(words) ==
                [i \in 1..Len(words) |-> IF i = 1 THEN words[i] ELSE <<" ">> \o words[i]]
            RECURSIVE flat(_)
            flat(ws) == IF ws = <<>> THEN <<>> ELSE Head(ws) \o flat(Tail(ws))
            joined(words) == flat(spaced(words))
            when(c, ls) == IF c THEN ls ELSE <<>>
            expected ==
                <<MANAGED_BY_COMMENT, Lit_Unit, Lit_Description \o d.name>>
                \o when(d.after # <<>>, <<Lit_After \o joined(d.after)>>)
                \o <<(<<>>), Lit_Service>>
                \o when(d.schedule # None, <<Lit_TypeOneshot>>)
                \o <<Lit_ExecStart \o joined(<<d.program>> \o d.arguments)>>
                \o when(d.working_directory # None,
                        <<Lit_WorkingDirectory \o d.working_directory[2]>>)
                \o when(d.schedule = None /\ d.keep_alive, <<Lit_RestartAlways>>)
                \o when(d.env_file # None, <<Lit_EnvironmentFile \o d.env_file[2]>>)
                \o [i \in 1..Len(d.env_vars) |->
                       Lit_Environment \o <<"\"">> \o d.env_vars[i][1] \o <<"=">>
                           \o d.env_vars[i][2] \o <<"\"">>]
                \o when(d.schedule = None /\ d.run_at_load,
                        <<(<<>>), Lit_Install, Lit_WantedByDefault>>)
        IN lines(unit.value) = expected

C12_Witness ==
    /\ unit.kind = "Ok"
    /\ Len(Unwrap(service).after) = 2
    /\ Len(Unwrap(service).arguments) = 2
    /\ Len(Unwrap(service).env_vars) = 2
    /\ Unwrap(service).env_vars[1] # Unwrap(service).env_vars[2]
    /\ IsSome(Unwrap(service).working_directory)
    /\ IsSome(Unwrap(service).env_file)
    /\ Unwrap(service).keep_alive
    /\ Unwrap(service).run_at_load
    /\ Unwrap(service).schedule = None

-----------------------------------------------------------------------------
(* Specification of the rendering of any ServiceDetails value: program is  *)
(* a String and may be empty (the library does not validate it).           *)

RenderServiceSet ==
    [name : NameSet,
     program : {<<>>} \cup ProgramSet,
     arguments : SeqUpTo(ArgumentSet, MaxArgs),
     working_directory : Opt(WorkingDirectorySet),
     run_at_load : BOOLEAN,
     keep_alive : BOOLEAN,
     env_file : {None},
     env_vars : {<<>>},
     after : {<<>>},
     schedule : Opt(ServiceScheduleSet)]

InitRender ==
    /\ service \in {Some(d) : d \in RenderServiceSet}
    /\ schedule = None
    /\ contents = None
    /\ unit = NotCalled
    /\ timer = NotCalled
    /\ parsed = NotCalled
    /\ plistOut = NotCalled
    /\ oncalendar = NotCalled
    /\ launchd = NotCalled
    /\ displayed = NotCalled
    /\ plistValue = None
    /\ plistParsed = NotCalled
    /\ listed = NotCalled
    /\ host = NoHost
    /\ prompt = NoPrompt

SpecRender == InitRender /\ [][GenerateFile]_vars

\* C13: generate_file fails with an error when program and arguments are
\* both empty, and never returns a unit whose ExecStart= value is empty.
C13_EmptyProgramIsError ==
    unit # NotCalled =>
        LET d == Unwrap(service)
        IN /\ (d.program = <<>> /\ d.arguments = <<>>) => unit.kind = "Err"
           /\ unit.kind = "Ok" =>
                 LET ls == lines(unit.value)
                 IN \A i \in 1..Len(ls) :
                        starts_with(ls[i], Lit_ExecStart)
                            => trim(strip_prefix(ls[i], Lit_ExecStart)) # <<>>

-----------------------------------------------------------------------------
(* launchd parser (platform/macos.rs) *)

\* parse_plist_into_service(plist); the Value accessors as_dictionary,
\* as_string, as_array and as_boolean give None for a value of another type
parse_plist_into_service(plist) ==
    LET as(o, tag) == IF IsSome(o) /\ Unwrap(o)[1] = tag THEN Some(Unwrap(o)[2]) ELSE None
        dict == Unwrap(as(Some(plist), "Dictionary"))
        program == as(dict_get(dict, "Program"), "String")
        \* arr.iter().filter_map(|v| v.as_string()), or the empty vector
        is_string(v) == v[1] = "String"
        arr == as(dict_get(dict, "ProgramArguments"), "Array")
        strings == IF IsSome(arr) THEN SelectSeq(Unwrap(arr), is_string) ELSE <<>>
        arguments == [i \in 1..Len(strings) |-> strings[i][2]]
        run_at_load == as(dict_get(dict, "RunAtLoad"), "Boolean")
        keep_alive == as(dict_get(dict, "KeepAlive"), "Boolean")
        \* Ok(ServiceDetails { name: "", program, arguments: vec![], .. })
        details(prog) ==
            Ok([name |-> <<>>,
                program |-> prog,
                arguments |-> <<>>,
                working_directory |-> as(dict_get(dict, "WorkingDirectory"), "String"),
                run_at_load |-> IF IsSome(run_at_load) THEN Unwrap(run_at_load) ELSE FALSE,
                keep_alive |-> IF IsSome(keep_alive) THEN Unwrap(keep_alive) ELSE FALSE,
                env_file |-> None,
                env_vars |-> <<>>,
                after |-> <<>>])
    IN IF as(Some(plist), "Dictionary") = None THEN Err("Invalid plist format")
       ELSE IF IsSome(program) THEN details(Unwrap(program))
       \* program = Some(arguments.remove(0)): Vec::remove panics on an empty
       \* vector
       ELSE IF arguments = <<>>
       THEN Panic("removal index (is 0) should be < len (is 0)")
       ELSE details(Head(arguments))

\* The property lists handed to the parser: a dictionary with any of the keys
\* the parser reads, of the expected type or of another one, or no dictionary
PlistValueSet ==
    LET ProgramValueSet == {PString(p) : p \in ProgramSet} \cup {PInteger(1)}
        ArgumentsValueSet ==
            {PArray(a) :
                a \in SeqUpTo({PString(p) : p \in ProgramSet \cup ArgumentSet}, MaxArgs)}
              \cup {PArray(<<PInteger(1), PString(<<"a">>)>>), PString(<<"a">>)}
        WorkingDirectoryValueSet == {PString(w) : w \in WorkingDirectorySet}
        FlagValueSet == {PBoolean(TRUE), PBoolean(FALSE)}
        \* insert the key when a value is given for it
        insert_some(dict, key, o) ==
            IF IsSome(o) THEN dict_insert(dict, key, Unwrap(o)) ELSE dict
    IN
    {PString(<<"x">>)} \cup
    {PDictionary(
         insert_some(
           insert_some(
             insert_some(
               insert_some(
                 insert_some(dict_insert(<<>>, "Label", PString(<<"x">>)),
                             "Program", p),
                 "ProgramArguments", a),
               "WorkingDirectory", w),
             "RunAtLoad", r),
           "KeepAlive", k)) :
       p \in Opt(ProgramValueSet), a \in Opt(ArgumentsValueSet),
       w \in Opt(WorkingDirectoryValueSet), r \in Opt(FlagValueSet),
       k \in Opt(FlagValueSet)}

InitPlist ==
    /\ service = None
    /\ schedule = None
    /\ contents = None
    /\ unit = NotCalled
    /\ timer = NotCalled
    /\ parsed = NotCalled
    /\ plistOut = NotCalled
    /\ oncalendar = NotCalled
    /\ launchd = NotCalled
    /\ displayed = NotCalled
    /\ plistValue \in {Some(v) : v \in PlistValueSet}
    /\ plistParsed = NotCalled
    /\ listed = NotCalled
    /\ host = NoHost
    /\ prompt = NoPrompt

\* parse_plist_into_service(plist)
ParsePlistIntoService ==
    /\ IsSome(plistValue)
    /\ plistParsed = NotCalled
    /\ plistParsed' = parse_plist_into_service(Unwrap(plistValue))
    /\ UNCHANGED <<service, schedule, contents, unit, timer, parsed, plistOut,
                   oncalendar, launchd, displayed, plistValue, listed, prompt,
                   host>>

SpecPlist == InitPlist /\ [][ParsePlistIntoService]_vars

\* C14: the launchd parser returns program = the Program string when that
\* key is there; otherwise program = the first element of ProgramArguments and
\* arguments = the other elements in order; WorkingDirectory is copied, and
\* RunAtLoad and KeepAlive are false when absent.
C14_PlistParsed ==
    (plistParsed # NotCalled /\ Unwrap(plistValue)[1] = "Dictionary") =>
        LET dict == Unwrap(plistValue)[2]
            has(key) == key \in dict_keys(dict)
            val(key) == Unwrap(dict_get(dict, key))[2]
            strings == has("ProgramArguments")
                           /\ Unwrap(dict_get(dict, "ProgramArguments"))[1] = "Array"
                           /\ \A i \in 1..Len(val("ProgramArguments")) :
                                  val("ProgramArguments")[i][1] = "String"
        IN /\ (has("Program") /\ Unwrap(dict_get(dict, "Program"))[1] = "String") =>
                 /\ plistParsed.kind = "Ok"
                 /\ plistParsed.value.program = val("Program")
           /\ (~has("Program") /\ strings /\ val("ProgramArguments") # <<>>) =>
                 /\ plistParsed.kind = "Ok"
                 /\ plistParsed.value.program = val("ProgramArguments")[1][2]
                 /\ plistParsed.value.arguments =
                        [i \in 1..(Len(val("ProgramArguments")) - 1) |->
                            val("ProgramArguments")[i + 1][2]]
           /\ plistParsed.kind = "Ok" =>
                 /\ (has("WorkingDirectory") =>
                        plistParsed.value.working_directory =
                            Some(val("WorkingDirectory")))
                 /\ (~has("WorkingDirectory") =>
                        plistParsed.value.working_directory = None)
                 /\ (~has("RunAtLoad") => plistParsed.value.run_at_load = FALSE)
                 /\ (~has("KeepAlive") => plistParsed.value.keep_alive = FALSE)
                 /\ (has("RunAtLoad") => plistParsed.value.run_at_load = val("RunAtLoad"))
                 /\ (has("KeepAlive") => plistParsed.value.keep_alive = val("KeepAlive"))

\* C15: the launchd parser returns an error value, without panicking, when
\* the dictionary has neither Program nor ProgramArguments, or when
\* ProgramArguments is an empty array.
C15_MissingProgramIsError ==
    (plistParsed # NotCalled /\ Unwrap(plistValue)[1] = "Dictionary") =>
        LET dict == Unwrap(plistValue)[2]
            has(key) == key \in dict_keys(dict)
        IN (/\ ~has("Program")
            /\ \/ ~has("ProgramArguments")
               \/ dict_get(dict, "ProgramArguments") = Some(PArray(<<>>)))
              => plistParsed.kind = "Err"

-----------------------------------------------------------------------------
(* Flags and environment read by parse_systemd *)

\* the trimmed lines of a text, as the loop of parse_systemd sees them
trimmed_lines(text) == LET ls == lines(text) IN [i \in 1..Len(ls) |-> trim(ls[i])]

\* the keys the loop of parse_systemd tests for
KeySet ==
    {Lit_Description, Lit_ExecStart, Lit_WorkingDirectory, Lit_WantedBy,
     Lit_Restart, Lit_EnvironmentFile, Lit_Environment, Lit_After}
recognised(line) == \E key \in KeySet : starts_with(trim(line), key)

\* C16: a parse that succeeds has keep_alive = (x # "no") for the Restart=<x>
\* line (the last one when there are several) and FALSE without one, and
\* run_at_load = TRUE iff some line is WantedBy=multi-user.target or
\* WantedBy=default.target; lines with no recognised key change nothing in the
\* result.
C16_RestartAndWantedBy ==
    (parsed # NotCalled /\ IsSome(contents)) =>
        LET raw == lines(Unwrap(contents))
            ls == [i \in 1..Len(raw) |-> trim(raw[i])]
            restarts == {i \in 1..Len(ls) : starts_with(ls[i], Lit_Restart)}
            last == CHOOSE i \in restarts : \A j \in restarts : j <= i
        IN /\ parsed.kind = "Ok" =>
                 /\ parsed.value.keep_alive =
                        (restarts # {}
                           /\ strip_prefix(ls[last], Lit_Restart) # <<"n","o">>)
                 /\ parsed.value.run_at_load =
                        (\E i \in 1..Len(ls) :
                            ls[i] \in {Lit_WantedByMultiUser, Lit_WantedByDefault})
           /\ parsed = parse_systemd(join_lines(SelectSeq(raw, recognised)))

C16_Witness ==
    /\ parsed.kind = "Ok"
    /\ IsSome(contents)
    /\ parsed.value.run_at_load
    /\ ~parsed.value.keep_alive
    /\ LET ls == trimmed_lines(Unwrap(contents))
       IN /\ has_line(ls, Lit_Restart \o <<"o","n","-","f","a","i","l","u","r","e">>)
          /\ has_line(ls, Lit_RestartNo)

-----------------------------------------------------------------------------
(* Properties of CalendarSchedule::display *)

\* C18: display gives the weekday abbreviation (when weekday is set), "day N"
\* (when day is set) and the zero-padded "HH:MM" (when hour is set, the minute
\* being 0 when unset), in this order with one space between them, and exactly
\* "scheduled" when no field is set.
C18_Display ==
    displayed # NotCalled =>
        LET s == Unwrap(schedule)
            abbr == IF IsSome(s.weekday)
                    THEN CASE Unwrap(s.weekday) = 0 -> <<"S","u","n">>
                           [] Unwrap(s.weekday) = 1 -> <<"M","o","n">>
                           [] Unwrap(s.weekday) = 2 -> <<"T","u","e">>
                           [] Unwrap(s.weekday) = 3 -> <<"W","e","d">>
                           [] Unwrap(s.weekday) = 4 -> <<"T","h","u">>
                           [] Unwrap(s.weekday) = 5 -> <<"F","r","i">>
                           [] Unwrap(s.weekday) = 6 -> <<"S","a","t">>
                    ELSE <<>>
            two(n) == <<Digits[(n \div 10) + 1], Digits[(n % 10) + 1]>>
            dayN == IF IsSome(s.day)
                    THEN <<"d","a","y"," ">>
                             \o (IF Unwrap(s.day) < 10
                                 THEN <<Digits[Unwrap(s.day) + 1]>>
                                 ELSE two(Unwrap(s.day)))
                    ELSE <<>>
            hhmm == IF IsSome(s.hour)
                    THEN two(Unwrap(s.hour)) \o <<":">>
                             \o two(IF IsSome(s.minute) THEN Unwrap(s.minute) ELSE 0)
                    ELSE <<>>
            sep(a, b) == IF a # <<>> /\ b # <<>> THEN <<" ">> ELSE <<>>
        IN /\ displayed.kind = "Ok"
           /\ (s.weekday # None \/ s.day # None \/ s.hour # None) =>
                  displayed.value =
                      abbr \o sep(abbr, dayN \o hhmm) \o dayN \o sep(dayN, hhmm) \o hhmm
           /\ (s.month = None /\ s.day = None /\ s.weekday = None
                 /\ s.hour = None /\ s.minute = None) =>
                  displayed.value = <<"s","c","h","e","d","u","l","e","d">>

C18_Witness ==
    /\ displayed.kind = "Ok"
    /\ Unwrap(schedule).minute = None
    /\ displayed.value = <<"W","e","d"," ","d","a","y"," ","9"," ","0","3",":","0","0">>

-----------------------------------------------------------------------------
(* Unit files on disk: create_service (platform/linux.rs) and the listing   *)
(* of the list command (cli/src/command/list.rs)                            *)

\* str::contains, str::ends_with
contains(s, sub) ==
    \E i \in 1..(Len(s) - Len(sub) + 1) : SubSeq(s, i, i + Len(sub) - 1) = sub
ends_with(s, suffix) ==
    /\ Len(s) >= Len(suffix)
    /\ SubSeq(s, Len(s) - Len(suffix) + 1, Len(s)) = suffix

\* str::trim_end_matches(suffix): the suffix is removed as often as it ends s
RECURSIVE trim_end_matches(_, _)
trim_end_matches(s, suffix) ==
    IF ends_with(s, suffix)
    THEN trim_end_matches(SubSeq(s, 1, Len(s) - Len(suffix)), suffix)
    ELSE s

Lit_DotService == <<".","s","e","r","v","i","c","e">>
Lit_DotTimer == <<".","t","i","m","e","r">>
systemd_system_dir ==
    <<"/","e","t","c","/","s","y","s","t","e","m","d","/","s","y","s","t","e","m">>

\* systemd_system_dir.join(format!("{}.service", details.name)) and the same
\* for the timer
service_path(name) == systemd_system_dir \o <<"/">> \o name \o Lit_DotService
timer_path(name) == systemd_system_dir \o <<"/">> \o name \o Lit_DotTimer

\* Path::file_name: the text after the last '/'
file_name(path) ==
    LET slashes == {i \in 1..Len(path) : path[i] = "/"}
        last == CHOOSE i \in slashes : \A j \in slashes : j <= i
    IN IF slashes = {} THEN path ELSE SubSeq(path, last + 1, Len(path))

\* The services create_service is called with
ListServiceSet == {d \in RenderServiceSet : d.program # <<>>}

\* Files that create_service did not write: the path, and what read_to_string
\* gives for it, None when the read fails
ForeignFileSet ==
    [path : {systemd_system_dir \o <<"/">> \o n :
                n \in {<<"f",".","s","e","r","v","i","c","e">>,
                       <<"f",".","t","i","m","e","r">>}}
               \cup {<<"/","L","i","b","/","f",".","p","l","i","s","t">>},
     content : Opt({Lit_Unit \o NL,
                    MANAGED_BY_COMMENT \o NL \o Lit_Unit \o NL,
                    NL \o MANAGED_BY_COMMENT \o NL,
                    <<"#"," ","M","a","n","a","g","e","d">>})]

\* The files create_service has written
created_files ==
    (IF unit.kind = "Ok"
     THEN {[path |-> service_path(Unwrap(service).name),
            content |-> Some(unit.value)]}
     ELSE {})
    \cup
    (IF timer.kind = "Ok"
     THEN {[path |-> timer_path(Unwrap(service).name),
            content |-> Some(timer.value)]}
     ELSE {})

retain_default_any(f) == TRUE

\* The closure of the first services.retain, for the default level
retain_default(f) ==
    IF contains(f.path, <<"s","y","s","t","e","m","d">>)
    THEN IF IsSome(f.content)
         THEN starts_with(Unwrap(f.content), MANAGED_BY_COMMENT)
         ELSE FALSE
    ELSE TRUE

\* retain_timer that keeps a timer only beside its service
retain_timer_inverted(f, fs) ==
    LET service_base_names ==
            {trim_end_matches(file_name(g.path), Lit_DotService) :
                g \in {h \in fs : ends_with(file_name(h.path), Lit_DotService)}}
    IN IF ends_with(file_name(f.path), Lit_DotTimer)
       THEN trim_end_matches(file_name(f.path), Lit_DotTimer) \in service_base_names
       ELSE TRUE

\* The closure of the second services.retain: a timer is kept only when no
\* service of the same base name is listed
retain_timer(f, fs) ==
    LET service_base_names ==
            {trim_end_matches(file_name(g.path), Lit_DotService) :
                g \in {h \in fs : ends_with(file_name(h.path), Lit_DotService)}}
    IN IF ends_with(file_name(f.path), Lit_DotTimer)
       THEN trim_end_matches(file_name(f.path), Lit_DotTimer) \notin service_base_names
       ELSE TRUE

\* The type column of get_service_type_and_schedule on Linux: "timer" for a
\* timer and for a unit whose base name is that of a listed timer
get_service_type(f, fs) ==
    LET timer_base_names ==
            {trim_end_matches(file_name(g.path), Lit_DotTimer) :
                g \in {h \in fs : ends_with(file_name(h.path), Lit_DotTimer)}}
        base_name == trim_end_matches(
                         trim_end_matches(file_name(f.path), Lit_DotService),
                         Lit_DotTimer)
    IN IF base_name \in timer_base_names \/ ends_with(file_name(f.path), Lit_DotTimer)
       THEN "timer"
       ELSE "service"

\* List::run at the default level over the files fs: the files scanned, those
\* the marker test retains, those left after the timer test, and the type
\* given to each of these
list_default(fs) ==
    LET retained == {f \in fs : retain_default(f)}
        shown == {g \in retained : retain_timer(g, retained)}
    IN Ok([scanned |-> fs,
           retained |-> {f.path : f \in retained},
           shown |-> {f.path : f \in shown},
           types |-> {<<f.path, get_service_type(f, retained)>> : f \in shown}])

InitList ==
    /\ service \in {Some(d) : d \in ListServiceSet}
    /\ schedule = None
    /\ contents = None
    /\ unit = NotCalled
    /\ timer = NotCalled
    /\ parsed = NotCalled
    /\ plistOut = NotCalled
    /\ oncalendar = NotCalled
    /\ launchd = NotCalled
    /\ displayed = NotCalled
    /\ plistValue = None
    /\ plistParsed = NotCalled
    /\ listed = NotCalled
    /\ host = NoHost
    /\ prompt = NoPrompt

\* create_service(&details): the unit file and, for a scheduled service, the
\* timer file
CreateService ==
    /\ IsSome(service)
    /\ Idle
    /\ unit' = generate_file(Unwrap(service))
    /\ timer' = IF IsSome(Unwrap(service).schedule)
                THEN generate_timer_file(Unwrap(service))
                ELSE timer
    /\ UNCHANGED <<service, schedule, contents, parsed, plistOut, oncalendar,
                   launchd, displayed, plistValue, plistParsed, listed, prompt,
                   host>>

\* List::run without --all, the directory holding what create_service wrote
\* and one more file
ListDefault ==
    /\ listed = NotCalled
    /\ \E foreign \in ForeignFileSet :
           listed' = list_default(created_files \cup {foreign})
    /\ UNCHANGED <<service, schedule, contents, unit, timer, parsed, plistOut,
                   oncalendar, launchd, displayed, plistValue, plistParsed,
                   prompt, host>>

NextList ==
    \/ CreateService
    \/ ListDefault

SpecList == InitList /\ [][NextList]_vars

\* C19: every unit and timer file written by create_service begins with the
\* line "# Managed by ser", and the default-level listing retains them and
\* drops every systemd unit file whose content does not begin with the marker.
C19_ManagedMarker ==
    LET name == Unwrap(service).name
    IN /\ unit.kind = "Ok" => starts_with(unit.value, MANAGED_BY_COMMENT \o NL)
       /\ timer.kind = "Ok" => starts_with(timer.value, MANAGED_BY_COMMENT \o NL)
       /\ listed # NotCalled =>
             /\ listed.kind = "Ok"
             /\ unit.kind = "Ok" => service_path(name) \in listed.value.retained
             /\ timer.kind = "Ok" => timer_path(name) \in listed.value.retained
             /\ \A f \in listed.value.scanned :
                    contains(f.path, <<"s","y","s","t","e","m","d">>) =>
                        (f.path \in listed.value.retained
                            <=> /\ IsSome(f.content)
                                /\ starts_with(Unwrap(f.content), MANAGED_BY_COMMENT))

C19_Witness ==
    /\ listed.kind = "Ok"
    /\ unit.kind = "Ok"
    /\ timer.kind = "Ok"
    /\ service_path(Unwrap(service).name) \in listed.value.retained
    /\ timer_path(Unwrap(service).name) \in listed.value.retained
    /\ \E f \in listed.value.scanned :
           /\ f.content = Some(Lit_Unit \o NL)
           /\ f.path \notin listed.value.retained

-----------------------------------------------------------------------------
(* The prompts of collect_service_details (cli/src/interactive.rs)          *)

\* The validator of the command prompt
validate_command(input) ==
    IF trim(input) = <<>> THEN Err("Command cannot be empty") ELSE Ok(input)

\* The validator of the name prompt: an input that is empty once trimmed, or
\* that contains the character ' ', is refused
validate_name(input) ==
    IF trim(input) = <<>> THEN Err("Service name cannot be empty")
    ELSE IF contains(input, SP) THEN Err("Service name cannot contain spaces")
    ELSE Ok(input)

\* resolve_binary_path(binary) when the binary is found: an absolute path is
\* returned as it is, another name is found in a directory of PATH
resolve_binary_path(binary) ==
    IF starts_with(binary, <<"/">>) THEN binary ELSE <<"/","b","/">> \o binary

\* The answer of a path prompt: None when empty once trimmed
trimmed_option(input) == IF trim(input) = <<>> THEN None ELSE Some(trim(input))

\* The loop over the environment prompts: an entry without '=' is asked again,
\* the others are pushed with key and value trimmed
RECURSIVE collect_env_vars(_)
collect_env_vars(inputs) ==
    IF inputs = <<>> THEN <<>>
    ELSE LET kv == split_once(Head(inputs), "=")
         IN (IF kv = None THEN <<>>
             ELSE << <<trim(Unwrap(kv)[1]), trim(Unwrap(kv)[2])>> >>)
                \o collect_env_vars(Tail(inputs))

networked_after(networked) ==
    IF networked
    THEN << <<"n","e","t","w","o","r","k",".","t","a","r","g","e","t">>,
            <<"n","e","t","w","o","r","k","-","o","n","l","i","n","e",".",
              "t","a","r","g","e","t">> >>
    ELSE <<>>

CollectedScheduleSet == {Schedule(None, None, None, Some(3), Some(0))}

Prompt(pc, command, bin_path, name, error) ==
    [pc |-> pc, command |-> command, bin_path |-> bin_path, name |-> name,
     error |-> error]

InitCollect ==
    /\ service = None
    /\ schedule = None
    /\ contents = None
    /\ unit = NotCalled
    /\ timer = NotCalled
    /\ parsed = NotCalled
    /\ plistOut = NotCalled
    /\ oncalendar = NotCalled
    /\ launchd = NotCalled
    /\ displayed = NotCalled
    /\ plistValue = None
    /\ plistParsed = NotCalled
    /\ listed = NotCalled
    /\ host = NoHost
    \* the command given on the command line
    /\ prompt \in {Prompt(IF c = <<>> THEN "command" ELSE "resolve", c, <<>>, <<>>, None) :
                      c \in {<<>>,
                             <<(<<"/","b","/","e">>)>>,
                             <<(<<"e">>), (<<"a">>)>>,
                             <<(<<"/","b","/","m"," ","e">>)>>,
                             <<(<<"/","b","/","a","\t","b">>)>>,
                             <<(<<"/","b","/">>)>>}}

\* The command prompt, shown when no command was given: the entry is refused
\* by the validator, or split at whitespace
PromptCommand ==
    /\ prompt.pc = "command"
    /\ \E input \in {<<>>, <<" "," ">>, <<"/","b","/","e"," ","a">>, <<"e">>} :
          LET v == validate_command(input)
          IN prompt' = IF v.kind = "Err"
                       THEN [prompt EXCEPT !.error = Some(v.msg)]
                       ELSE [prompt EXCEPT !.pc = "resolve",
                                           !.command = split_whitespace(input),
                                           !.error = None]
    /\ UNCHANGED <<service, schedule, contents, unit, timer, parsed, plistOut,
                   oncalendar, launchd, displayed, plistValue, plistParsed,
                   listed, host>>

\* program = command.remove(0) and, with validate = true, the lookup of the
\* binary, which fails when there is no such binary
ResolveBinary ==
    /\ prompt.pc = "resolve"
    /\ \E found \in BOOLEAN :
          prompt' = IF found
                    THEN [prompt EXCEPT !.pc = "name",
                                        !.bin_path = resolve_binary_path(Head(prompt.command))]
                    ELSE [prompt EXCEPT !.pc = "failed",
                                        !.error = Some("Failed to resolve binary path")]
    /\ UNCHANGED <<service, schedule, contents, unit, timer, parsed, plistOut,
                   oncalendar, launchd, displayed, plistValue, plistParsed,
                   listed, host>>

\* The name prompt: the entry, or the default for an empty entry, goes through
\* the validator and is asked again when refused
PromptName ==
    /\ prompt.pc = "name"
    /\ \E input \in {<<>>, <<" ">>, <<"s",".","1">>, <<"a"," ","b">>,
                      <<"a","\t","b">>, <<"\t">>} :
          LET \* bin_path.rsplit('/').next().unwrap()
              default_basename == file_name(prompt.bin_path)
              \* Input::default: an empty entry stands for the default
              entered == IF input = <<>> THEN default_basename ELSE input
              v == validate_name(entered)
          IN prompt' = IF v.kind = "Err"
                       THEN [prompt EXCEPT !.error = Some(v.msg)]
                       ELSE [prompt EXCEPT !.pc = "options", !.name = v.value,
                                           !.error = None]
    /\ UNCHANGED <<service, schedule, contents, unit, timer, parsed, plistOut,
                   oncalendar, launchd, displayed, plistValue, plistParsed,
                   listed, host>>

\* The remaining prompts and the construction of the ServiceDetails
PromptOptions ==
    /\ prompt.pc = "options"
    /\ \E wd \in {<<>>, <<" ","/","m"," ","d"," ">>},
          ef \in {<<>>, <<" ","/","e">>},
          envs \in SeqUpTo({<<"K","=","v">>, <<" ","L"," ","="," ","a","=","b">>,
                            <<"K">>}, MaxEnv),
          run_at_load \in BOOLEAN, keep_alive \in BOOLEAN, networked \in BOOLEAN,
          sched \in Opt(CollectedScheduleSet) :
          service' = Some([name |-> prompt.name,
                           program |-> prompt.bin_path,
                           arguments |-> Tail(prompt.command),
                           working_directory |-> trimmed_option(wd),
                           run_at_load |-> run_at_load,
                           keep_alive |-> keep_alive,
                           env_file |-> trimmed_option(ef),
                           env_vars |-> collect_env_vars(envs),
                           after |-> networked_after(networked),
                           schedule |-> sched])
    /\ prompt' = [prompt EXCEPT !.pc = "done"]
    /\ UNCHANGED <<schedule, contents, unit, timer, parsed, plistOut,
                   oncalendar, launchd, displayed, plistValue, plistParsed,
                   listed, host>>

NextCollect ==
    \/ PromptCommand
    \/ ResolveBinary
    \/ PromptName
    \/ PromptOptions

SpecCollect == InitCollect /\ [][NextCollect]_vars

\* C20: no ServiceDetails returned by collect_service_details has a name that
\* is empty or contains a whitespace character.
C20_NameWithoutWhitespace ==
    (prompt.pc = "done" /\ IsSome(service)) =>
        LET name == Unwrap(service).name
        IN /\ name # <<>>
           /\ \A i \in 1..Len(name) : name[i] \notin WhiteSpace

-----------------------------------------------------------------------------
(* The schedule and the systemd parser *)

\* C28: parse_systemd gives schedule = None; for a ServiceDetails with a
\* schedule, parsing the generated unit file succeeds with run_at_load = FALSE
\* and keep_alive = FALSE whatever the flags of the ServiceDetails, and gives
\* back program, arguments, working_directory and after.
C28_ScheduledRoundTrip ==
    (parsed # NotCalled /\ IsSome(service)) =>
        /\ parsed.kind = "Ok" => parsed.value.schedule = None
        /\ IsSome(Unwrap(service).schedule) =>
              /\ parsed.kind = "Ok"
              /\ parsed.value.run_at_load = FALSE
              /\ parsed.value.keep_alive = FALSE
              /\ parsed.value.program = Unwrap(service).program
              /\ parsed.value.arguments = Unwrap(service).arguments
              /\ parsed.value.working_directory = Unwrap(service).working_directory
              /\ parsed.value.after = Unwrap(service).after

C28_Witness ==
    /\ parsed.kind = "Ok"
    /\ IsSome(service)
    /\ IsSome(Unwrap(service).schedule)
    /\ Unwrap(service).run_at_load
    /\ Unwrap(service).keep_alive
    /\ Len(Unwrap(service).arguments) = 2
    /\ Len(Unwrap(service).after) = 2
    /\ ~parsed.value.run_at_load
    /\ ~parsed.value.keep_alive

\* C30: display gives "scheduled" only for the schedule with no field set: with
\* a field set (month alone and minute alone included) the result is another
\* text, and it holds the number or the weekday abbreviation of a set field.
C30_ScheduledOnlyWhenEmpty ==
    displayed # NotCalled =>
        LET s == Unwrap(schedule)
            numbers == {f \in {s.month, s.day, s.hour, s.minute} : IsSome(f)}
            abbrs == {<<"S","u","n">>, <<"M","o","n">>, <<"T","u","e">>, <<"W","e","d">>,
                      <<"T","h","u">>, <<"F","r","i">>, <<"S","a","t">>}
        IN (numbers # {} \/ IsSome(s.weekday)) =>
              /\ displayed.kind = "Ok"
              /\ displayed.value # <<"s","c","h","e","d","u","l","e","d">>
              /\ \/ \E f \in numbers : contains(displayed.value, to_decimal(Unwrap(f)))
                 \/ IsSome(s.weekday) /\ \E a \in abbrs : contains(displayed.value, a)

-----------------------------------------------------------------------------
(* Order of the lines handed to parse_systemd *)

\* the elements of a set, in some fixed order
RECURSIVE SetToSeq(_)
SetToSeq(S) ==
    IF S = {} THEN <<>>
    ELSE LET x == CHOOSE y \in S : TRUE IN <<x>> \o SetToSeq(S \ {x})
LineOrder == SetToSeq(LineSet)

\* Each of Description, ExecStart, WorkingDirectory, Restart, EnvironmentFile
\* and After starts at most one of the lines
keys_at_most_once(raw) ==
    \A key \in {Lit_Description, Lit_ExecStart, Lit_WorkingDirectory, Lit_Restart,
                Lit_EnvironmentFile, Lit_After} :
        Cardinality({i \in 1..Len(raw) : starts_with(trim(raw[i]), key)}) <= 1

\* The text with the same lines in the order that stands for all its
\* permutations keeping the Environment= lines in their relative order: the
\* other lines in the order of LineOrder, then the Environment= lines
canonical_text(raw) ==
    LET is_env(l) == starts_with(trim(l), Lit_Environment)
        not_env(l) == ~is_env(l)
        others == SelectSeq(raw, not_env)
        rank(l) == CHOOSE k \in 1..Len(LineOrder) : LineOrder[k] = l
        before(i, j) == \/ rank(others[i]) < rank(others[j])
                        \/ rank(others[i]) = rank(others[j]) /\ i < j
        pos(i) == Cardinality({j \in 1..Len(others) : before(j, i)}) + 1
        sorted == [p \in 1..Len(others) |->
                      others[CHOOSE i \in 1..Len(others) : pos(i) = p]]
    IN join_lines(sorted \o SelectSeq(raw, is_env))

-----------------------------------------------------------------------------
(* Timers in the listing *)

\* C26: of the units the listing holds after the marker test, a <base>.timer is
\* shown iff no <base>.service is among them and every other unit is shown; a
\* shown unit has the type "timer" when it is a timer or a <base>.timer is
\* among them for its base name, and the type "service" otherwise.
C26_TimerRows ==
    listed # NotCalled =>
        LET l == listed.value
            name(path) == file_name(path)
            is_timer(path) == ends_with(name(path), Lit_DotTimer)
            cut(n, suffix) == IF ends_with(n, suffix)
                              THEN SubSeq(n, 1, Len(n) - Len(suffix)) ELSE n
            base(path) == cut(cut(name(path), Lit_DotService), Lit_DotTimer)
            listing(n) == \E q \in l.retained : name(q) = n
        IN /\ l.shown \subseteq l.retained
           /\ \A path \in l.retained :
                 /\ is_timer(path) =>
                       (path \in l.shown <=> ~listing(base(path) \o Lit_DotService))
                 /\ ~is_timer(path) => path \in l.shown
                 /\ path \in l.shown =>
                       <<path, IF is_timer(path) \/ listing(base(path) \o Lit_DotTimer)
                               THEN "timer" ELSE "service">> \in l.types
           /\ Cardinality(l.types) = Cardinality(l.shown)

C26_Witness ==
    /\ listed.kind = "Ok"
    /\ unit.kind = "Ok"
    /\ timer.kind = "Ok"
    /\ <<service_path(Unwrap(service).name), "timer">> \in listed.value.types
    /\ timer_path(Unwrap(service).name) \notin listed.value.shown
    /\ \E path \in listed.value.shown :
           ends_with(path, Lit_DotTimer) /\ <<path, "timer">> \in listed.value.types

-----------------------------------------------------------------------------
(* The file written by create_service and the codec *)

\* C27: the property list written by create_service on macOS has the keys and
\* values of plist::generate_file for the same ServiceDetails.
C27_WrittenIsGenerated ==
    (IsSome(plistValue) /\ IsSome(service)) =>
        LET written == Unwrap(plistValue)[2]
            generated == plist_generate_file(Unwrap(service)).value
        IN /\ dict_keys(written) = dict_keys(generated)
           /\ \A key \in dict_keys(generated) :
                  dict_get(written, key) = dict_get(generated, key)

-----------------------------------------------------------------------------
(* The prompts of collect_schedule (cli/src/interactive.rs)                 *)

\* str::parse::<u8> without its checks: the value of a text of digits
RECURSIVE from_decimal(_)
from_decimal(s) ==
    IF s = <<>> THEN 0
    ELSE 10 * from_decimal(SubSeq(s, 1, Len(s) - 1))
            + ((CHOOSE d \in 1..10 : Digits[d] = s[Len(s)]) - 1)

\* collect_optional_number without the test of the range
collect_optional_number_unchecked(input, min, max) ==
    LET text == trim(input)
        digits == IF text # <<>> /\ Head(text) = "+" THEN Tail(text) ELSE text
        parses == /\ digits # <<>>
                  /\ \A i \in 1..Len(digits) : \E d \in 1..10 : Digits[d] = digits[i]
                  /\ from_decimal(digits) <= 255
    IN IF text = <<>> THEN Ok(None)
       ELSE IF ~parses THEN Err("Invalid number")
       ELSE Ok(Some(from_decimal(digits)))

\* collect_optional_number(theme, prompt, min, max) for the text entered: None
\* for an empty entry, an error for a text that is no u8 or is outside
\* min..max
collect_optional_number(input, min, max) ==
    LET text == trim(input)
        \* u8::from_str: an optional '+', then digits, the value at most 255
        digits == IF text # <<>> /\ Head(text) = "+" THEN Tail(text) ELSE text
        parses == /\ digits # <<>>
                  /\ \A i \in 1..Len(digits) : \E d \in 1..10 : Digits[d] = digits[i]
                  /\ from_decimal(digits) <= 255
        value == from_decimal(digits)
    IN IF text = <<>> THEN Ok(None)
       ELSE IF ~parses THEN Err("Invalid number")
       ELSE IF value < min \/ value > max THEN Err("Value must be between min and max")
       ELSE Ok(Some(value))

InitSchedule ==
    /\ service = None
    /\ schedule = None
    /\ contents = None
    /\ unit = NotCalled
    /\ timer = NotCalled
    /\ parsed = NotCalled
    /\ plistOut = NotCalled
    /\ oncalendar = NotCalled
    /\ launchd = NotCalled
    /\ displayed = NotCalled
    /\ plistValue = None
    /\ plistParsed = NotCalled
    /\ listed = NotCalled
    /\ host = NoHost
    /\ prompt = [pc |-> "type", pending |-> <<>>,
                 fields |-> Schedule(None, None, None, None, None), error |-> None]

\* The "Schedule type" selection: the prompts that follow it, in their order
SelectScheduleType ==
    /\ prompt.pc = "type"
    /\ \E selection \in 0..3 :
          LET ask(field) == [field |-> field, optional |-> selection = 3]
          IN prompt' =
                 [prompt EXCEPT
                     !.pc = "ask",
                     !.pending =
                         CASE selection = 0 -> <<ask("hour"), ask("minute")>>
                           [] selection = 1 ->
                                <<ask("weekday"), ask("hour"), ask("minute")>>
                           [] selection = 2 ->
                                <<ask("day"), ask("hour"), ask("minute")>>
                           [] selection = 3 ->
                                <<ask("month"), ask("day"), ask("weekday"),
                                  ask("hour"), ask("minute")>>]
    /\ UNCHANGED <<service, schedule, contents, unit, timer, parsed, plistOut,
                   oncalendar, launchd, displayed, plistValue, plistParsed,
                   listed, host>>

\* One prompt of collect_hour, collect_minute, collect_weekday,
\* collect_day_of_month, collect_optional_number or collect_optional_weekday:
\* the entry is refused and asked again, or ends collect_schedule with an
\* error, or is stored; after the last prompt the CalendarSchedule is returned
AnswerSchedulePrompt ==
    /\ prompt.pc = "ask"
    /\ LET q == Head(prompt.pending)
           min == IF q.field \in {"month", "day"} THEN 1 ELSE 0
           max == CASE q.field = "month" -> 12 [] q.field = "day" -> 31
                    [] q.field = "hour" -> 23 [] q.field = "minute" -> 59
                    [] q.field = "weekday" -> 6
           \* the outcome of the prompt for an entry
           number(entry) ==
               \* Input<u8> with a default and a validator
               LET v == IF entry = None THEN min ELSE Unwrap(entry)
               IN IF (q.field = "day" /\ v < 1) \/ v > max
                  THEN [kind |-> "Again"] ELSE Ok(Some(v))
           stored(v) ==
               [prompt EXCEPT
                   !.pc = IF Len(prompt.pending) = 1 THEN "done" ELSE "ask",
                   !.pending = Tail(prompt.pending),
                   !.fields = [prompt.fields EXCEPT ![q.field] = v],
                   !.error = None]
           after(outcome) ==
               CASE outcome.kind = "Again" ->
                        [prompt EXCEPT !.error = Some("out of range")]
                 [] outcome.kind = "Err" ->
                        [prompt EXCEPT !.pc = "failed", !.error = Some(outcome.msg)]
                 [] outcome.kind = "Ok" -> stored(outcome.value)
           outcomes ==
               IF q.field = "weekday"
               THEN IF q.optional
                    \* Select over "Any day" and the seven days
                    THEN {Ok(IF sel = 0 THEN None ELSE Some(sel - 1)) : sel \in 0..7}
                    ELSE {Ok(Some(sel)) : sel \in 0..6}
               ELSE IF q.optional
               THEN {collect_optional_number(text, min, max) :
                        text \in {<<>>, <<" ">>, <<"0">>, <<"1">>, <<" ","+","7">>,
                                  <<"1","2">>, <<"1","3">>, <<"2","3">>, <<"2","4">>,
                                  <<"3","1">>, <<"3","2">>, <<"5","9">>, <<"6","0">>,
                                  <<"2","5","6">>, <<"-","1">>, <<"x">>}}
               ELSE {number(entry) : entry \in Opt({0, 1, 23, 24, 31, 32, 59, 60, 255})}
       IN \E outcome \in outcomes :
             /\ prompt' = after(outcome)
             /\ schedule' = IF prompt'.pc = "done" THEN Some(prompt'.fields)
                            ELSE schedule
    /\ UNCHANGED <<service, contents, unit, timer, parsed, plistOut,
                   oncalendar, launchd, displayed, plistValue, plistParsed,
                   listed, host>>

NextSchedule ==
    \/ SelectScheduleType
    \/ AnswerSchedulePrompt

SpecSchedule == InitSchedule /\ [][NextSchedule]_vars

\* C21: every CalendarSchedule returned by collect_schedule has each field
\* that is set within its range: month 1..12, day 1..31, weekday 0..6,
\* hour 0..23, minute 0..59.
C21_FieldsInRange ==
    (prompt.pc = "done" /\ IsSome(schedule)) =>
        LET s == Unwrap(schedule)
            within(f, lo, hi) == IsSome(f) => Unwrap(f) \in lo..hi
        IN /\ within(s.month, 1, 12)
           /\ within(s.day, 1, 31)
           /\ within(s.weekday, 0, 6)
           /\ within(s.hour, 0, 23)
           /\ within(s.minute, 0, 59)

C21_Witness ==
    /\ prompt.pc = "done"
    /\ schedule = Some(Schedule(Some(12), Some(31), Some(6), Some(23), Some(59)))

-----------------------------------------------------------------------------
(* The generator of `ser generate` (cli/src/command/generate.rs)            *)

\* generate_systemd_service with no ExecStart line when program is None
generate_systemd_service_program_only(details) ==
    Lit_Unit \o NL
     \o Lit_Description \o details.name \o NL
     \o NL \o Lit_Service \o NL
     \o (IF IsSome(details.program)
         THEN Lit_ExecStart \o Unwrap(details.program)
                \o push_arguments(details.arguments) \o NL
         ELSE <<>>)
     \o (IF IsSome(details.working_directory)
         THEN Lit_WorkingDirectory \o Unwrap(details.working_directory) \o NL
         ELSE <<>>)
     \o (IF details.keep_alive THEN Lit_RestartAlways \o NL ELSE <<>>)
     \o (IF details.run_at_load
         THEN NL \o Lit_Install \o NL \o Lit_WantedByDefault \o NL
         ELSE <<>>)

\* generate_systemd_service(&details), program being an Option
generate_systemd_service(details) ==
    Lit_Unit \o NL
     \o Lit_Description \o details.name \o NL
     \o NL \o Lit_Service \o NL
     \o (IF IsSome(details.program)
         THEN IF details.arguments = <<>>
              THEN Lit_ExecStart \o Unwrap(details.program) \o NL
              \* cmd = program, then ' ' and the argument for each argument
              ELSE Lit_ExecStart \o Unwrap(details.program)
                     \o push_arguments(details.arguments) \o NL
         ELSE IF details.arguments # <<>>
         THEN Lit_ExecStart \o join(details.arguments, SP) \o NL
         ELSE <<>>)
     \o (IF IsSome(details.working_directory)
         THEN Lit_WorkingDirectory \o Unwrap(details.working_directory) \o NL
         ELSE <<>>)
     \o (IF details.keep_alive THEN Lit_RestartAlways \o NL ELSE <<>>)
     \o (IF details.run_at_load
         THEN NL \o Lit_Install \o NL \o Lit_WantedByDefault \o NL
         ELSE <<>>)

\* The ServiceDetails that the prompts of generate.rs build: a program without
\* arguments or arguments without a program, and those of its tests
InitGenerate ==
    /\ service \in
          {Some(d) : d \in [name : NameSet \cup {<<"t">>},
                            program : Opt(ProgramSet),
                            arguments : SeqUpTo(ArgumentSet \cup ProgramSet, MaxArgs),
                            working_directory : Opt(WorkingDirectorySet),
                            run_at_load : BOOLEAN,
                            keep_alive : BOOLEAN]}
    /\ schedule = None
    /\ contents = None
    /\ unit = NotCalled
    /\ timer = NotCalled
    /\ parsed = NotCalled
    /\ plistOut = NotCalled
    /\ oncalendar = NotCalled
    /\ launchd = NotCalled
    /\ displayed = NotCalled
    /\ plistValue = None
    /\ plistParsed = NotCalled
    /\ listed = NotCalled
    /\ host = NoHost
    /\ prompt = NoPrompt

\* Generate::run with Format::Systemd, after the prompts
GenerateSystemdService ==
    /\ unit = NotCalled
    /\ unit' = Ok(generate_systemd_service(Unwrap(service)))
    /\ UNCHANGED <<service, schedule, contents, timer, parsed, plistOut,
                   oncalendar, launchd, displayed, plistValue, plistParsed,
                   listed, prompt, host>>

SpecGenerate == InitGenerate /\ [][GenerateSystemdService]_vars

\* C22: generate_systemd_service has the line ExecStart=<program and the
\* arguments, separated by spaces> when program is present, the line
\* ExecStart=<the arguments joined by spaces> when program is None and there
\* are arguments; it has a WorkingDirectory= line iff working_directory is
\* present, the line Restart=always iff keep_alive, and the lines [Install]
\* and WantedBy=default.target iff run_at_load.
C22_LegacyGenerator ==
    unit.kind = "Ok" =>
        LET d == Unwrap(service)
            ls == lines(unit.value)
        IN /\ IsSome(d.program) =>
                 has_line(ls, Lit_ExecStart
                                \o join(<<Unwrap(d.program)>> \o d.arguments, SP))
           /\ (d.program = None /\ d.arguments # <<>>) =>
                 has_line(ls, Lit_ExecStart \o join(d.arguments, SP))
           /\ has_line_with(ls, Lit_WorkingDirectory) <=> IsSome(d.working_directory)
           /\ IsSome(d.working_directory) =>
                 has_line(ls, Lit_WorkingDirectory \o Unwrap(d.working_directory))
           /\ has_line(ls, Lit_RestartAlways) <=> d.keep_alive
           /\ has_line_with(ls, Lit_Restart) <=> d.keep_alive
           /\ has_line(ls, Lit_Install) <=> d.run_at_load
           /\ has_line(ls, Lit_WantedByDefault) <=> d.run_at_load
           /\ has_line_with(ls, Lit_WantedBy) <=> d.run_at_load

C22_Witness ==
    /\ unit.kind = "Ok"
    /\ Unwrap(service).program = None
    /\ Len(Unwrap(service).arguments) = 2
    /\ Unwrap(service).working_directory = None
    /\ Unwrap(service).keep_alive
    /\ ~Unwrap(service).run_at_load

-----------------------------------------------------------------------------
(* The Linux platform (lib/src/platform/linux.rs) and `ser stop`            *)
(* (cli/src/command/stop.rs) on a host.  The host is a record: files, the   *)
(* unit files of /etc/systemd/system (path and content); enabled and        *)
(* active, the unit names systemd has enabled and running; op, issued and   *)
(* result, the last operation, the systemctl commands it ran and what it    *)
(* returned.                                                                *)

\* One systemctl command on the host h: the host after it and its exit status.
\* A name without unit suffix is a service; enable and disable need the unit
\* file, and --now starts or stops the unit as well.
systemctl(command, h) ==
    LET unit_name == IF \/ ends_with(command.unit, Lit_DotService)
                        \/ ends_with(command.unit, Lit_DotTimer)
                     THEN command.unit
                     ELSE command.unit \o Lit_DotService
        loaded == \E f \in h.files :
                     f.path = systemd_system_dir \o <<"/">> \o unit_name
    IN CASE command.cmd = "daemon-reload" -> [host |-> h, success |-> TRUE]
         [] command.cmd = "is-active" ->
                [host |-> h, success |-> unit_name \in h.active]
         [] command.cmd = "enable --now" ->
                IF loaded
                THEN [host |-> [h EXCEPT !.enabled = @ \cup {unit_name},
                                         !.active = @ \cup {unit_name}],
                      success |-> TRUE]
                ELSE [host |-> h, success |-> FALSE]
         [] command.cmd = "disable --now" ->
                IF loaded
                THEN [host |-> [h EXCEPT !.enabled = @ \ {unit_name},
                                         !.active = @ \ {unit_name}],
                      success |-> TRUE]
                ELSE [host |-> h, success |-> FALSE]

\* create_service(&details) on the host h
create_service(details, h) ==
    LET write(fs, path, text) ==
            {f \in fs : f.path # path} \cup {[path |-> path, content |-> text]}
        with_service == write(h.files, service_path(details.name),
                              generate_file(details).value)
        with_timer == IF IsSome(details.schedule)
                      THEN write(with_service, timer_path(details.name),
                                 generate_timer_file(details).value)
                      ELSE with_service
    IN [h EXCEPT !.files = with_timer,
                 !.op = [fn |-> "create_service", name |-> details.name],
                 !.issued = <<[cmd |-> "daemon-reload"]>>,
                 !.result = Ok(<<>>)]

\* start_service(name) on the host h
start_service(name, h) ==
    LET base_name == trim_end_matches(trim_end_matches(name, Lit_DotService),
                                      Lit_DotTimer)
        timer_name == base_name \o Lit_DotTimer
        unit_to_start ==
            IF \E f \in h.files : f.path = systemd_system_dir \o <<"/">> \o timer_name
            THEN timer_name ELSE name
        command == [cmd |-> "enable --now", unit |-> unit_to_start]
        output == systemctl(command, h)
    IN [output.host EXCEPT
           !.op = [fn |-> "start_service", name |-> name],
           !.issued = <<[cmd |-> "daemon-reload"], command>>,
           !.result = IF output.success THEN Ok(<<>>) ELSE Err("Failed to start")]

\* stop_service that never looks for the timer
stop_service_by_name(name, h) ==
    LET command == [cmd |-> "disable --now", unit |-> name]
        output == systemctl(command, h)
    IN [output.host EXCEPT
           !.op = [fn |-> "stop_service", name |-> name],
           !.issued = <<command>>,
           !.result = IF output.success THEN Ok(<<>>) ELSE Err("Failed to stop")]

\* stop_service(name) on the host h
stop_service(name, h) ==
    LET base_name == trim_end_matches(trim_end_matches(name, Lit_DotService),
                                      Lit_DotTimer)
        timer_name == base_name \o Lit_DotTimer
        unit_to_stop ==
            IF \E f \in h.files : f.path = systemd_system_dir \o <<"/">> \o timer_name
            THEN timer_name ELSE name
        command == [cmd |-> "disable --now", unit |-> unit_to_stop]
        output == systemctl(command, h)
    IN [output.host EXCEPT
           !.op = [fn |-> "stop_service", name |-> name],
           !.issued = <<command>>,
           !.result = IF output.success THEN Ok(<<>>) ELSE Err("Failed to stop")]

\* normalize_service_name(name): the text before the first '@', without
\* leading "homebrew.mxcl." and trailing ".service"
normalize_service_name(name) ==
    LET ats == {i \in 1..Len(name) : name[i] = "@"}
        first == IF ats = {} THEN name
                 ELSE SubSeq(name, 1, (CHOOSE i \in ats : \A j \in ats : i <= j) - 1)
        homebrew == <<"h","o","m","e","b","r","e","w",".","m","x","c","l",".">>
        RECURSIVE trim_start_matches(_)
        trim_start_matches(t) ==
            IF starts_with(t, homebrew)
            THEN trim_start_matches(SubSeq(t, Len(homebrew) + 1, Len(t)))
            ELSE t
    IN trim_end_matches(trim_start_matches(first), Lit_DotService)

\* get_service(name) on the files fs: the ServiceRef of a unit file whose
\* normalized name is that of name.  (No two unit files of the model have the
\* same normalized name, so the directory order does not matter.)
get_service(name, fs) ==
    LET found == {f \in fs :
                     normalize_service_name(file_name(f.path))
                        = normalize_service_name(name)}
    IN IF found = {} THEN Err("Service not found")
       ELSE LET f == CHOOSE g \in found : TRUE
            IN Ok([name |-> file_name(f.path), path |-> f.path,
                   content |-> f.content])

\* Stop::run for the name given on the command line, on the host h
stop_run(name, h) ==
    LET called == [h EXCEPT !.op = [fn |-> "Stop::run", name |-> name],
                            !.issued = <<>>]
        resolved == get_service(name, h.files)
        \* get_service_details(&resolved_name)
        service_ref == get_service(resolved.value.name, h.files)
        details == parse_systemd(service_ref.value.content)
        is_active == [cmd |-> "is-active", unit |-> resolved.value.name]
        running == systemctl(is_active, h).success
        stopped == stop_service(resolved.value.name, h)
    IN IF resolved.kind = "Err"
       THEN [called EXCEPT !.result = Err("Service not found")]
       ELSE IF service_ref.kind = "Err" \/ details.kind = "Err"
       THEN [called EXCEPT !.result = Err("Service not found.")]
       ELSE IF details.kind = "Panic"
       THEN [called EXCEPT !.result = details]
       ELSE IF ~running
       THEN [called EXCEPT !.issued = <<is_active>>, !.result = Ok(<<>>)]
       ELSE [stopped EXCEPT !.op = called.op,
                            !.issued = <<is_active>> \o stopped.issued]

InitHost ==
    /\ service = None
    /\ schedule = None
    /\ contents = None
    /\ unit = NotCalled
    /\ timer = NotCalled
    /\ parsed = NotCalled
    /\ plistOut = NotCalled
    /\ oncalendar = NotCalled
    /\ launchd = NotCalled
    /\ displayed = NotCalled
    /\ plistValue = None
    /\ plistParsed = NotCalled
    /\ listed = NotCalled
    /\ prompt = NoPrompt
    /\ host = NoHost

\* create_service(&details); service keeps the details of the last call
HostCreateService ==
    /\ \E details \in {d \in ListServiceSet :
                          d.arguments = <<>> /\ d.working_directory = None} :
          /\ host' = create_service(details, host)
          /\ service' = Some(details)
    /\ UNCHANGED <<schedule, contents, unit, timer, parsed, plistOut,
                   oncalendar, launchd, displayed, plistValue, plistParsed,
                   listed, prompt>>

\* start_service(name), for a name with or without unit suffix
HostStartService ==
    /\ \E name \in {n \o suffix : n \in NameSet \cup {<<"t">>},
                                  suffix \in {<<>>, Lit_DotService, Lit_DotTimer}} :
          host' = start_service(name, host)
    /\ UNCHANGED <<service, schedule, contents, unit, timer, parsed, plistOut,
                   oncalendar, launchd, displayed, plistValue, plistParsed,
                   listed, prompt>>

\* stop_service(name), for a name with or without unit suffix
HostStopService ==
    /\ \E name \in {n \o suffix : n \in NameSet \cup {<<"t">>},
                                  suffix \in {<<>>, Lit_DotService, Lit_DotTimer}} :
          host' = stop_service(name, host)
    /\ UNCHANGED <<service, schedule, contents, unit, timer, parsed, plistOut,
                   oncalendar, launchd, displayed, plistValue, plistParsed,
                   listed, prompt>>

\* `ser stop <name>`
StopRun ==
    /\ \E name \in {n \o suffix : n \in NameSet \cup {<<"t">>},
                                  suffix \in {<<>>, Lit_DotService, Lit_DotTimer}} :
          host' = stop_run(name, host)
    /\ UNCHANGED <<service, schedule, contents, unit, timer, parsed, plistOut,
                   oncalendar, launchd, displayed, plistValue, plistParsed,
                   listed, prompt>>

NextHost ==
    \/ HostCreateService
    \/ HostStartService
    \/ HostStopService
    \/ StopRun

SpecHost == InitHost /\ [][NextHost]_vars

\* the file of the host at path, if there is one
host_file(path) ==
    IF \E f \in host.files : f.path = path
    THEN Some((CHOOSE f \in host.files : f.path = path).content)
    ELSE None

\* the unit of a name: <base>.timer when the timer file of the base exists
\* on the host, the name otherwise
unit_of(name) ==
    LET base == trim_end_matches(trim_end_matches(name, Lit_DotService),
                                 Lit_DotTimer)
    IN IF IsSome(host_file(timer_path(base))) THEN base \o Lit_DotTimer ELSE name

\* C23: after any sequence of create_service calls the service file of the
\* name holds generate_file of the last details created, and the timer file
\* of the name exists iff those details have a schedule.
C23_FilesOfLastCreate ==
    IsSome(service) =>
        LET details == Unwrap(service)
        IN /\ host_file(service_path(details.name))
                 = Some(generate_file(details).value)
           /\ IsSome(host_file(timer_path(details.name)))
                 <=> IsSome(details.schedule)

\* C24: start_service(name) and stop_service(name) act on the same unit, the
\* timer of the base name when its file exists and the name itself
\* otherwise; start_service runs daemon-reload and then enable --now on that
\* unit, stop_service runs disable --now on it.
C24_StartStopSameUnit ==
    /\ host.op.fn = "start_service" =>
          host.issued = <<[cmd |-> "daemon-reload"],
                          [cmd |-> "enable --now", unit |-> unit_of(host.op.name)]>>
    /\ host.op.fn = "stop_service" =>
          host.issued = <<[cmd |-> "disable --now", unit |-> unit_of(host.op.name)]>>

C24_Witness ==
    /\ host.op = [fn |-> "stop_service",
                  name |-> <<"s",".","1">> \o Lit_DotService]
    /\ host.issued = <<[cmd |-> "disable --now",
                        unit |-> <<"s",".","1">> \o Lit_DotTimer]>>
    /\ host.result.kind = "Ok"

\* C25: whenever `ser stop <name>` returns success for an existing service,
\* the unit that start_service enables for the name is not enabled any more.
C25_StopDisables ==
    (host.op.fn = "Stop::run" /\ host.result.kind = "Ok") =>
        unit_of(get_service(host.op.name, host.files).value.name)
            \notin host.enabled

====
